---- MODULE Spec2Model ----
(***************************************************************************)
(* The pipeline orchestrator of the coding agent.                          *)
(*                                                                         *)
(* Two entry points are modelled, one run each:                            *)
(*   program = "v1": orchestrate (intake, setup, plan, plan-review,        *)
(*                   execute, code-review, test, test-fix, commit)         *)
(*   program = "v2": runController (setup, plan, implement, commit)        *)
(* Every await of the source is one action; what the external              *)
(* collaborators (agent runner, git, PR creation, check commands) return   *)
(* or throw is chosen nondeterministically.                                *)
(*                                                                         *)
(* Two functions are also modelled on their own, applied to every input    *)
(* within the bounds: the test runner (RunnerSpec) and the verdict parser  *)
(* of the human simulator (ParserSpec).                                    *)
(***************************************************************************)
EXTENDS Integers, Sequences, FiniteSets, TLC

\* ----------------------------------------------------------------- bounds
\* what one agent call reports as its cost: nothing, or MaxCost
MaxCost == 1
\* largest value of a cycle cap of the configuration
MaxCap == 2
\* largest value of config.maxTotalBudgetUsd
MaxBudget == 2
\* the number of calls of the test runner's functions in one behaviour
MaxRuns == 2
\* the largest number of lines of a review text
MaxLines == 3

Costs == {0, MaxCost}
Caps == 0..MaxCap
Budgets == 0..MaxBudget

VARIABLES
    program,              \* which entry point this run executes
    config,               \* AgentConfig, immutable for the run
    repo,                 \* the repository at taskInput.repoPath
    pc,                   \* position of the run in its entry point
    state,                \* orchestrate: let state
    phases,               \* orchestrate: const phases (the ledger)
    projectInfo,          \* ProjectInfo detected by intake / runSetup
    worktreePath,         \* "" until setup has returned
    planSessionId,
    diff,                 \* orchestrate: let diff ("" or "d")
    lastTestResult,       \* NoTestResult (undefined), or a TestResult
    prUrl,
    baseline,             \* TestBaseline
    planReviewCycle,
    codeReviewCycle,
    testFixCycle,
    fail,                 \* arguments of the pending failWithCleanup call
    stages,               \* runController: const stages
    cycle,                \* runPlan / runImplement: loop variable cycle
    stageCost,            \* runPlan / runImplement: let totalCost
    coderSessionId,       \* runImplement: let coderSessionId
    totalAccumulatedCost, \* sdk: let totalAccumulatedCost
    result,               \* the ControllerResult returned, or NoResult
    worktree,             \* the worktree on disk: created, removed, dirty
    git,                  \* side effects on the repository
    calls,                \* every phase call made so far, in order
    executed,             \* every check command run by runCommand, in order
    text,                 \* the review text handed to parseVerdict
    parsed,               \* what parseVerdict returned for text
    maxBudgetUsd,         \* runAgent: options.maxBudgetUsd (0 is none)
    stream,               \* runAgent: the messages query() has yet to yield
    costUsd,              \* runAgent: let costUsd
    aborted,              \* runAgent: abortController.abort() was called
    exitCode              \* the code passed to process.exit, once it is called

input == <<program, config, repo>>
locals == <<projectInfo, worktreePath, planSessionId, diff, lastTestResult,
            prUrl, baseline>>
counters == <<planReviewCycle, codeReviewCycle, testFixCycle>>
v2vars == <<stages, cycle, stageCost, coderSessionId>>
env == <<worktree, git>>
parser == <<text, parsed>>
agent == <<maxBudgetUsd, stream, costUsd, aborted>>
vars == <<program, config, repo, pc, state, phases, projectInfo, worktreePath,
          planSessionId, diff, lastTestResult, prUrl, baseline,
          planReviewCycle, codeReviewCycle, testFixCycle, fail, stages,
          cycle, stageCost, coderSessionId, totalAccumulatedCost, result,
          worktree, git, calls, executed, text, parsed, maxBudgetUsd,
          stream, costUsd, aborted, exitCode>>

\* ------------------------------------------------------------ data model
NoResult == [status |-> "none"]
NoFail == [summary |-> "none", isDraft |-> FALSE]
NoProject == [hasGitRemote |-> FALSE, canPush |-> FALSE, lintCommand |-> FALSE,
              typecheckCommand |-> FALSE, testCommand |-> FALSE]

\* let lastTestResult: TestResult | undefined, while it is undefined
NoTestResult == [passed |-> FALSE, exitCode |-> 0, output |-> "undefined",
                 failureCategory |-> "undefined"]

\* parseVerdict has not been applied
NoVerdict == [verdict |-> "none", issues |-> <<>>]

\* PhaseResult (durationMs and error are never read by the controller)
PhaseResult(phase, success, sessionId, cost) ==
    [phase |-> phase, success |-> success, sessionId |-> sessionId,
     costUsd |-> cost]

\* one phase call: the ledger total when it started, what it reported, how it ended
Call(op, pre, cost, out) == [op |-> op, pre |-> pre, cost |-> cost, out |-> out]

\* a phase call that runs an agent: the session it was told to resume (0 is
\* none) and the session id the agent reported (0 is the empty id)
AgentCall(op, pre, cost, out, resume, sessionId) ==
    [op |-> op, pre |-> pre, cost |-> cost, out |-> out,
     resume |-> resume, sessionId |-> sessionId]

\* a call of test() or testFix() with the TestBaseline it was passed
Given(call, bl) == call @@ [baseline |-> bl]

RECURSIVE SumCost(_)
SumCost(s) == IF s = <<>> THEN 0 ELSE s[1].costUsd + SumCost(Tail(s))

\* the session id reported by the n-th call of the run (0 is the empty id)
NewSession == Len(calls) + 1

\* a totalCost that reads the sdk's accumulated counter instead of the ledger
totalCostLedgerMut(ph) == totalAccumulatedCost
\* orchestrate.totalCost
totalCost(ph) == SumCost(ph)

\* a budgetExceeded that never reports the budget as exceeded
budgetExceededNeverMut(ph) == FALSE
\* a budgetExceeded that lets a total equal to the cap pass
budgetExceededStrictMut(ph) == totalCost(ph) > config.maxTotalBudgetUsd
\* orchestrate.budgetExceeded
budgetExceeded(ph) == totalCost(ph) >= config.maxTotalBudgetUsd

\* ------------------------------------------------------------------ Init
\* The inputs of a run: the entry point, the configuration and the repository.
\* A repository is what intake / runSetup can observe of it.
Repos ==
    {r \in [valid : BOOLEAN, hasGitRemote : BOOLEAN, reachable : BOOLEAN,
            lintCommand : BOOLEAN, typecheckCommand : BOOLEAN,
            testCommand : BOOLEAN] :
       ~r.valid => ~(r.hasGitRemote \/ r.reachable \/ r.testCommand
                     \/ r.lintCommand \/ r.typecheckCommand)}

\* whether r defines a lint or a typecheck command
Linted(r) == r.lintCommand \/ r.typecheckCommand

\* a repository with a reachable remote and a test command
StdRepo ==
    [valid |-> TRUE, hasGitRemote |-> TRUE, reachable |-> TRUE,
     lintCommand |-> FALSE, typecheckCommand |-> FALSE, testCommand |-> TRUE]

Configs ==
    [skipPlanReview : BOOLEAN, skipCodeReview : BOOLEAN, skipTests : BOOLEAN,
     skipReview : BOOLEAN, noPush : BOOLEAN, draftPrOnFailure : BOOLEAN,
     maxPlanReviewCycles : Caps, maxCodeReviewCycles : Caps,
     maxTestFixCycles : Caps, maxTotalBudgetUsd : Budgets]

NoSkip(c) ==
    ~(c.skipPlanReview \/ c.skipCodeReview \/ c.skipTests \/ c.skipReview)

\* the number of cycle caps of c larger than n
CapsAbove(c, n) ==
    Cardinality({f \in {"maxPlanReviewCycles", "maxCodeReviewCycles",
                        "maxTestFixCycles"} : c[f] > n})

\* the runs of orchestrate that are explored:
\*   every combination of cycle caps in which at most one loop may iterate
\*   more than once, with every budget (the two largest when a loop may
\*   iterate more than once), on the standard repository, the commits kept
\*   local (noPush);
\*   every combination of the skip flags with caps of one;
\*   every repository with every push configuration, the reviews skipped,
\*   caps of one;
\*   every combination of check commands, the reviews skipped, caps of one
V1Inputs ==
    {in \in Configs \X Repos :
       LET c == in[1]
           r == in[2] IN
         /\ ~c.skipReview
         /\ \/ /\ r = StdRepo /\ NoSkip(c) /\ c.noPush /\ c.draftPrOnFailure
               /\ CapsAbove(c, 1) <= 1
               /\ CapsAbove(c, 1) = 1 => c.maxTotalBudgetUsd >= MaxBudget - 1
            \/ /\ r = StdRepo /\ ~c.noPush /\ c.draftPrOnFailure
               /\ CapsAbove(c, 1) = 0 /\ CapsAbove(c, 0) = 3
            \/ /\ c.skipPlanReview /\ c.skipCodeReview /\ ~c.skipTests
               /\ ~Linted(r)
               /\ CapsAbove(c, 1) = 0 /\ CapsAbove(c, 0) = 3
               /\ c.maxTotalBudgetUsd = MaxBudget
            \/ /\ Linted(r) /\ r.hasGitRemote /\ r.reachable
               /\ c.skipPlanReview /\ c.skipCodeReview /\ ~c.skipTests
               /\ ~c.noPush /\ c.draftPrOnFailure
               /\ CapsAbove(c, 1) = 0 /\ CapsAbove(c, 0) = 3
               /\ c.maxTotalBudgetUsd = MaxBudget}

\* the runs of the v2 runController that are explored: the fields only
\* orchestrate reads keep their defaults
V2Inputs ==
    {in \in Configs \X Repos :
       LET c == in[1]
           r == in[2] IN
         /\ ~(c.skipPlanReview \/ c.skipCodeReview \/ c.skipTests)
         /\ c.maxTestFixCycles = 0
         /\ ~r.testCommand /\ ~Linted(r)
         /\ \/ r = [StdRepo EXCEPT !.testCommand = FALSE]
               /\ ~c.noPush /\ c.draftPrOnFailure
            \/ /\ CapsAbove(c, 1) = 0 /\ CapsAbove(c, 0) = 2
               /\ c.maxTotalBudgetUsd = MaxBudget}

Inputs ==
    {<<"v1", in[1], in[2]>> : in \in V1Inputs}
    \cup {<<"v2", in[1], in[2]>> : in \in V2Inputs}

\* the locals of orchestrate and runController after their declarations, the
\* cost counter of the sdk after its reset, and an untouched repository
Fresh ==
    /\ exitCode = <<>>
    /\ maxBudgetUsd = 0
    /\ stream = <<>>
    /\ costUsd = 0
    /\ aborted = FALSE
    /\ state = "intake"
    /\ phases = <<>>
    /\ worktreePath = ""
    /\ planSessionId = 0
    /\ diff = ""
    /\ prUrl = ""
    /\ planReviewCycle = 0
    /\ codeReviewCycle = 0
    /\ testFixCycle = 0
    /\ fail = NoFail
    /\ stages = <<>>
    /\ cycle = 0
    /\ stageCost = 0
    /\ coderSessionId = 0
    /\ totalAccumulatedCost = 0
    /\ result = NoResult
    /\ worktree = [created |-> FALSE, removed |-> FALSE, dirty |-> FALSE]
    /\ git = [commits |-> 0, pushAttempted |-> FALSE, prAttempted |-> FALSE,
              push |-> "none", pr |-> "none"]

Init ==
    /\ \E in \in Inputs :
         program = in[1] /\ config = in[2] /\ repo = in[3]
    /\ pc = IF program = "v1" THEN "intake" ELSE "runSetup"
    /\ Fresh
    /\ projectInfo = NoProject
    /\ lastTestResult = NoTestResult
    /\ baseline = [runLint |-> FALSE, runTypecheck |-> FALSE, runUnit |-> FALSE]
    /\ calls = <<>>
    /\ executed = <<>>
    /\ text = <<>>
    /\ parsed = NoVerdict

\* ------------------------------------------------- orchestrate: top level
\* a top-level catch that lets the error leave orchestrate: nothing is returned
CatchRethrowMut(st) ==
    /\ pc' = "thrown"
    /\ fail' = [summary |-> st, isDraft |-> (diff # "")]
\* the top-level catch: failWithCleanup(`Failed in ${state}: ...`, !!diff)
Catch(st) ==
    /\ pc' = "fail"
    /\ fail' = [summary |-> st, isDraft |-> (diff # "")]

\* return failWithCleanup('Budget exceeded ...' | 'Plan rejected ...', false)
FailWith(summary) ==
    /\ pc' = "fail"
    /\ fail' = [summary |-> summary, isDraft |-> FALSE]

\* a loop condition planReviewCycle <= maxPlanReviewCycles
PlanReviewHeadOffByOneMut(n) ==
    IF ~config.skipPlanReview /\ n <= config.maxPlanReviewCycles
    THEN "plan-review" ELSE "execute"
\* the head of the plan-review section: where the run goes next
PlanReviewHead(n) ==
    IF ~config.skipPlanReview /\ n < config.maxPlanReviewCycles
    THEN "plan-review" ELSE "execute"

\* verdict branches that treat reject like revise
PlanReviewNextRejectRevisesMut(verdict, n) ==
    IF verdict = "approve" THEN "execute"
    ELSE IF n < config.maxPlanReviewCycles THEN "plan-revise"
    ELSE PlanReviewHead(n)
\* verdict branches that fail the run on a revise verdict in the last cycle
PlanReviewNextCapFailsMut(verdict, n) ==
    IF verdict = "approve" THEN "execute"
    ELSE IF verdict = "reject" THEN "fail"
    ELSE IF n < config.maxPlanReviewCycles THEN "plan-revise"
    ELSE "fail"
\* verdict branches that revise the plan on every revise verdict
PlanReviewNextAlwaysRevisesMut(verdict, n) ==
    IF verdict = "approve" THEN "execute"
    ELSE IF verdict = "reject" THEN "fail"
    ELSE "plan-revise"
\* where the run goes after the n-th plan review has returned verdict and the
\* budget check has passed ("fail" stands for failWithCleanup('Plan rejected'))
PlanReviewNext(verdict, n) ==
    IF verdict = "approve" THEN "execute"
    ELSE IF verdict = "reject" THEN "fail"
    ELSE IF n < config.maxPlanReviewCycles THEN "plan-revise"
    ELSE PlanReviewHead(n)

\* the head of the code-review section
CodeReviewHead(n) ==
    IF ~config.skipCodeReview /\ n < config.maxCodeReviewCycles
    THEN "code-review" ELSE "test"

\* the head of the test-fix loop
TestFixHead(r, n) ==
    IF ~r.passed /\ n < config.maxTestFixCycles THEN "test-fix" ELSE "commit"

\* test-runner: hasTests
hasTests(pi) == pi.testCommand \/ pi.lintCommand \/ pi.typecheckCommand

\* a hasBaselineChecks that always finds a check to run
hasBaselineChecksAlwaysMut(bl) == TRUE
\* test-runner: hasBaselineChecks
hasBaselineChecks(bl) == bl.runLint \/ bl.runTypecheck \/ bl.runUnit

\* what one execution of the three check commands gives (TRUE: exit code 0)
CommandOutcomes == [lint : BOOLEAN, typecheck : BOOLEAN, unit : BOOLEAN]

\* an order of the blocks of runTests that starts with the unit tests
CategoriesUnitFirstMut == <<"unit", "typecheck", "lint">>
\* the check categories, in the order in which the runner visits them
Categories == <<"lint", "typecheck", "unit">>

\* whether pi defines the command of category c
Command(pi, c) ==
    CASE c = "lint" -> pi.lintCommand
      [] c = "typecheck" -> pi.typecheckCommand
      [] c = "unit" -> pi.testCommand

\* the field of TestBaseline that belongs to category c
Enforce(bl, c) ==
    CASE c = "lint" -> bl.runLint
      [] c = "typecheck" -> bl.runTypecheck
      [] c = "unit" -> bl.runUnit

\* a runBaselineTests that runs each command once per process: a category
\* whose command was run by an earlier call keeps its initial false
runBaselineTestsOnceMut(pi, ok) ==
    LET again(c) == \E i \in 1..Len(executed) :
                      executed[i] = [at |-> "baseline", category |-> c] IN
      [runLint |-> pi.lintCommand /\ ok.lint /\ ~again("lint"),
       runTypecheck |-> pi.typecheckCommand /\ ok.typecheck /\ ~again("typecheck"),
       runUnit |-> pi.testCommand /\ ok.unit /\ ~again("unit")]
\* test-runner: runBaselineTests
runBaselineTests(pi, ok) ==
    [runLint |-> pi.lintCommand /\ ok.lint,
     runTypecheck |-> pi.typecheckCommand /\ ok.typecheck,
     runUnit |-> pi.testCommand /\ ok.unit]

\* the commands runBaselineTests executes: every command pi defines
baselineCommands(pi) == SelectSeq(Categories, LAMBDA c : Command(pi, c))

\* test-runner: what runCommand returns for a failing command
Failed(category) ==
    [passed |-> FALSE, exitCode |-> 1, output |-> category,
     failureCategory |-> category]

\* the blocks of runTests from the k-th on, ran being the commands executed
\* so far: a block runs its command if the category is enforced and defined,
\* and resolves with the failure if the command fails
RECURSIVE runTestsFrom(_, _, _, _, _)
runTestsFrom(pi, bl, ok, k, ran) ==
    IF k > Len(Categories)
    THEN [result |-> [passed |-> TRUE, exitCode |-> 0,
                      output |-> "All enforced checks passed",
                      failureCategory |-> "none"],
          ran |-> ran]
    ELSE LET c == Categories[k] IN
           IF Enforce(bl, c) /\ Command(pi, c)
           THEN IF ok[c]
                THEN runTestsFrom(pi, bl, ok, k + 1, Append(ran, c))
                ELSE [result |-> Failed(c), ran |-> Append(ran, c)]
           ELSE runTestsFrom(pi, bl, ok, k + 1, ran)

\* test-runner: runTests
runTests(pi, bl, ok) == runTestsFrom(pi, bl, ok, 1, <<>>).result

\* phases/test: the output of a test phase that has nothing to enforce
NoChecksOutput ==
    "No checks to enforce (all failed on baseline or none defined)"

\* a test phase that runs every defined check whatever the baseline says
testIgnoresBaselineMut(pi, bl, ok) ==
    runTestsFrom(pi, [runLint |-> TRUE, runTypecheck |-> TRUE, runUnit |-> TRUE],
                 ok, 1, <<>>)
\* phases/test: test, with the commands it executed
test(pi, bl, ok) ==
    IF ~hasBaselineChecks(bl)
    THEN [result |-> [passed |-> TRUE, exitCode |-> 0,
                      output |-> NoChecksOutput,
                      failureCategory |-> "none"],
          ran |-> <<>>]
    ELSE runTestsFrom(pi, bl, ok, 1, <<>>)

\* the entries of executed for the commands ran, executed at step
Executed(step, ran) == [i \in 1..Len(ran) |-> [at |-> step, category |-> ran[i]]]

\* a canPush that is the outcome of the probe alone
canPushProbeOnlyMut(r) == r.reachable
\* intake and runSetup: hasGitRemote ? canPushToRemote(repoPath) : false
canPush(r) == IF r.hasGitRemote THEN r.reachable ELSE FALSE

\* an intake that does not validate the repository path
IntakeUnvalidatedMut ==
    /\ program = "v1" /\ pc = "intake"
    /\ projectInfo' =
         [hasGitRemote |-> repo.hasGitRemote,
          canPush |-> canPush(repo),
          lintCommand |-> repo.lintCommand,
          typecheckCommand |-> repo.typecheckCommand,
          testCommand |-> repo.testCommand]
    /\ phases' = Append(phases, PhaseResult("intake", TRUE, 0, 0))
    /\ calls' = Append(calls, Call("intake", totalCost(phases), 0, "ok"))
    /\ state' = "setup"
    /\ pc' = "setup"
    /\ UNCHANGED fail
    /\ UNCHANGED <<input, parser, agent, exitCode, executed, worktreePath, planSessionId, diff,
                   lastTestResult, prUrl, baseline, counters, v2vars,
                   totalAccumulatedCost, result, env>>

\* intake: validates the repository and detects the project
Intake ==
    /\ program = "v1" /\ pc = "intake"
    /\ IF ~repo.valid
       THEN \* the path does not exist or is not a git repository
            /\ Catch(state)
            /\ calls' = Append(calls, Call("intake", totalCost(phases), 0, "throw"))
            /\ UNCHANGED <<phases, projectInfo, state>>
       ELSE /\ projectInfo' =
                 [hasGitRemote |-> repo.hasGitRemote,
                  canPush |-> canPush(repo),
                  lintCommand |-> repo.lintCommand,
                  typecheckCommand |-> repo.typecheckCommand,
                  testCommand |-> repo.testCommand]
            /\ phases' = Append(phases, PhaseResult("intake", TRUE, 0, 0))
            /\ calls' = Append(calls, Call("intake", totalCost(phases), 0, "ok"))
            /\ state' = "setup"
            /\ pc' = "setup"
            /\ UNCHANGED fail
    /\ UNCHANGED <<input, parser, agent, exitCode, executed, worktreePath, planSessionId, diff,
                   lastTestResult, prUrl, baseline, counters, v2vars,
                   totalAccumulatedCost, result, env>>

\* setup: creates the worktree, installs dependencies, makes the baseline commit
Setup ==
    /\ program = "v1" /\ pc = "setup"
    /\ \/ \* createWorktree (or anything before it) throws: no worktree exists
          /\ Catch(state)
          /\ calls' = Append(calls, Call("setup", totalCost(phases), 0, "throw"))
          /\ UNCHANGED <<phases, worktreePath, worktree>>
       \/ \* mkdirSync, the .gitignore write, copyFileSync or stageAll throws
          \* after createWorktree has succeeded
          /\ Catch(state)
          /\ worktree' = [worktree EXCEPT !.created = TRUE]
          /\ calls' = Append(calls, Call("setup", totalCost(phases), 0, "throw"))
          /\ UNCHANGED <<phases, worktreePath>>
       \/ /\ worktree' = [worktree EXCEPT !.created = TRUE]
          /\ worktreePath' = "wt"
          /\ phases' = Append(phases, PhaseResult("setup", TRUE, 0, 0))
          /\ calls' = Append(calls, Call("setup", totalCost(phases), 0, "ok"))
          /\ pc' = IF ~config.skipTests /\ hasTests(projectInfo)
                   THEN "baseline" ELSE "plan"
          /\ UNCHANGED fail
    /\ state' = IF pc' = "plan" THEN "plan" ELSE state
    /\ UNCHANGED <<input, parser, agent, exitCode, executed, projectInfo, planSessionId, diff,
                   lastTestResult, prUrl, baseline, counters, v2vars,
                   totalAccumulatedCost, result, git>>

\* the baseline step of orchestrate: baseline = runBaselineTests(...)
Baseline ==
    /\ program = "v1" /\ pc = "baseline"
    /\ \E ok \in CommandOutcomes :
         baseline' = runBaselineTests(projectInfo, ok)
    /\ executed' = executed \o Executed("baseline", baselineCommands(projectInfo))
    /\ state' = "plan"
    /\ pc' = "plan"
    /\ UNCHANGED <<input, parser, agent, exitCode, phases, projectInfo, worktreePath,
                   planSessionId, diff, lastTestResult, prUrl, counters, fail,
                   v2vars, totalAccumulatedCost, result, env, calls>>

\* a planSessionId that is never replaced by the session of execute or a fix
NextSessionKeepsMut(current, reported) == current
\* if (result.sessionId) planSessionId = result.sessionId
NextSession(current, reported) == IF reported # 0 THEN reported ELSE current

\* the session step op is told to resume: the initial plan starts a new one,
\* every later step of the lineage is passed planSessionId
Resumed(op) == IF op = "plan" THEN 0 ELSE planSessionId

\* one invocation of plan(): the agent reports cost c, then the plan document
\* is read and validated
PlanCall(op, onThrow) ==
    \E c \in Costs :
      /\ totalAccumulatedCost' = totalAccumulatedCost + c
      /\ \/ /\ phases' = Append(phases, PhaseResult("plan", TRUE, NewSession, c))
            /\ planSessionId' = NewSession
            /\ calls' = Append(calls, AgentCall(op, totalCost(phases), c, "ok",
                                                Resumed(op), NewSession))
            /\ pc' = PlanReviewHead(planReviewCycle)
            /\ UNCHANGED fail
         \/ \* runAgent throws, or plan.md is missing or lacks a section
            /\ calls' = Append(calls, AgentCall(op, totalCost(phases), c, "throw",
                                                Resumed(op), 0))
            /\ onThrow
            /\ UNCHANGED <<phases, planSessionId>>

\* the first plan invocation; a throw is caught and planning is retried
Plan ==
    /\ program = "v1" /\ pc = "plan"
    /\ PlanCall("plan", pc' = "plan-retry" /\ UNCHANGED fail)
    /\ state' = IF pc' = "plan-retry" THEN state ELSE "plan-review"
    /\ UNCHANGED <<input, parser, agent, exitCode, executed, projectInfo, worktreePath, diff,
                   lastTestResult, prUrl, baseline, counters, v2vars, result,
                   env>>

\* a retry that is itself retried when it throws
PlanRetryAgainMut ==
    /\ program = "v1" /\ pc = "plan-retry"
    /\ PlanCall("plan", pc' = "plan-retry" /\ UNCHANGED fail)
    /\ state' = IF pc' = "plan-retry" THEN state ELSE "plan-review"
    /\ UNCHANGED <<input, parser, agent, exitCode, executed, projectInfo, worktreePath, diff,
                   lastTestResult, prUrl, baseline, counters, v2vars, result,
                   env>>
\* the retry of the first plan invocation; a throw reaches the top-level catch
PlanRetry ==
    /\ program = "v1" /\ pc = "plan-retry"
    /\ PlanCall("plan", Catch(state))
    /\ state' = IF pc' = "fail" THEN state ELSE "plan-review"
    /\ UNCHANGED <<input, parser, agent, exitCode, executed, projectInfo, worktreePath, diff,
                   lastTestResult, prUrl, baseline, counters, v2vars, result,
                   env>>

\* what the review agent leaves in .agent/plan-review.json: a verdict with
\* its feedback, or nothing that readFileSync and JSON.parse accept
PlanReviewFiles ==
    {[parsable |-> TRUE, verdict |-> "approve", feedback |-> <<>>],
     [parsable |-> TRUE, verdict |-> "revise", feedback |-> <<"f">>],
     [parsable |-> TRUE, verdict |-> "reject", feedback |-> <<"f">>],
     [parsable |-> FALSE, verdict |-> "none", feedback |-> <<>>]}

\* a planReview that rejects the plan when the review cannot be parsed
planReviewRejectsUnparsableMut(file) ==
    IF file.parsable
    THEN [verdict |-> file.verdict, feedback |-> file.feedback]
    ELSE [verdict |-> "reject", feedback |-> <<>>]
\* planReview: the verdict read from the file, approve by default
planReview(file) ==
    IF file.parsable
    THEN [verdict |-> file.verdict, feedback |-> file.feedback]
    ELSE [verdict |-> "approve", feedback |-> <<>>]

\* what the review agent leaves in .agent/code-review.json
CodeReviewFiles ==
    {[parsable |-> TRUE, verdict |-> "pass", issues |-> <<>>],
     [parsable |-> TRUE, verdict |-> "fail", issues |-> <<"i">>],
     [parsable |-> FALSE, verdict |-> "none", issues |-> <<>>]}

\* codeReview: the verdict read from the file, pass by default
codeReview(file) ==
    IF file.parsable
    THEN [verdict |-> file.verdict, issues |-> file.issues]
    ELSE [verdict |-> "pass", issues |-> <<>>]

\* how the calls log names the outcome of a review whose file was file
ReviewOut(file) == IF file.parsable THEN file.verdict ELSE "unparsable"

\* one iteration of the plan-review loop up to the verdict
PlanReview ==
    /\ program = "v1" /\ pc = "plan-review"
    /\ planReviewCycle' = planReviewCycle + 1
    /\ \/ \* runAgent throws: caught by the loop's catch, which leaves the loop
          /\ calls' = Append(calls, Call("plan-review", totalCost(phases), 0, "throw"))
          /\ pc' = "execute"
          /\ UNCHANGED <<phases, fail, totalAccumulatedCost>>
       \/ \E c \in Costs, file \in PlanReviewFiles :
            LET verdict == planReview(file).verdict IN
            /\ totalAccumulatedCost' = totalAccumulatedCost + c
            /\ phases' = Append(phases, PhaseResult("plan-review", TRUE, NewSession, c))
            /\ calls' = Append(calls, Call("plan-review", totalCost(phases), c,
                                           ReviewOut(file)))
            /\ IF budgetExceeded(phases')
               THEN FailWith("Budget exceeded during plan review")
               ELSE IF PlanReviewNext(verdict, planReviewCycle') = "fail"
               THEN FailWith("Plan rejected")
               ELSE /\ pc' = PlanReviewNext(verdict, planReviewCycle')
                    /\ UNCHANGED fail
    /\ UNCHANGED <<input, parser, agent, exitCode, executed, state, locals, codeReviewCycle,
                   testFixCycle, v2vars, result, env>>

\* the plan revision of a revise verdict; its throw is caught by the loop's catch
PlanRevise ==
    /\ program = "v1" /\ pc = "plan-revise"
    /\ PlanCall("plan-revise", pc' = "execute" /\ UNCHANGED fail)
    /\ UNCHANGED <<input, parser, agent, exitCode, executed, state, projectInfo, worktreePath, diff,
                   lastTestResult, prUrl, baseline, counters, v2vars, result,
                   env>>

\* the execute section: the budget check, then execute()
Execute ==
    /\ program = "v1" /\ pc = "execute"
    /\ IF budgetExceeded(phases)
       THEN /\ FailWith("Budget exceeded before execution")
            /\ UNCHANGED <<phases, planSessionId, diff, totalAccumulatedCost,
                           worktree, calls>>
       ELSE \/ \* runAgent throws, possibly after the agent has edited files
               \E dirty \in BOOLEAN :
                 /\ worktree' = [worktree EXCEPT !.dirty = dirty]
                 /\ calls' = Append(calls, AgentCall("execute", totalCost(phases), 0, "throw",
                                                     Resumed("execute"), 0))
                 /\ Catch("execute")
                 /\ UNCHANGED <<phases, planSessionId, diff, totalAccumulatedCost>>
            \/ \* the agent returns and getDiff is empty: execute throws
               \E c \in Costs :
                 /\ totalAccumulatedCost' = totalAccumulatedCost + c
                 /\ calls' = Append(calls, AgentCall("execute", totalCost(phases), c, "empty",
                                                     Resumed("execute"), 0))
                 /\ Catch("execute")
                 /\ UNCHANGED <<phases, planSessionId, diff, worktree>>
            \/ \E c \in Costs :
                 /\ totalAccumulatedCost' = totalAccumulatedCost + c
                 /\ phases' = Append(phases, PhaseResult("execute", TRUE, NewSession, c))
                 /\ calls' = Append(calls, AgentCall("execute", totalCost(phases), c, "ok",
                                                     Resumed("execute"), NewSession))
                 /\ diff' = "d"
                 /\ worktree' = [worktree EXCEPT !.dirty = TRUE]
                 /\ planSessionId' = NextSession(planSessionId, NewSession)
                 /\ pc' = CodeReviewHead(codeReviewCycle)
                 /\ UNCHANGED fail
    /\ state' = IF pc' = "fail" THEN "execute" ELSE "code-review"
    /\ UNCHANGED <<input, parser, agent, exitCode, executed, projectInfo, worktreePath, lastTestResult,
                   prUrl, baseline, counters, v2vars, result, git>>

\* one iteration of the code-review loop up to the verdict
CodeReview ==
    /\ program = "v1" /\ pc = "code-review"
    /\ codeReviewCycle' = codeReviewCycle + 1
    /\ IF budgetExceeded(phases)
       THEN \* 'Budget exceeded, skipping code review': break
            /\ pc' = "test"
            /\ UNCHANGED <<phases, totalAccumulatedCost, calls>>
       ELSE \/ \* runAgent throws: caught by the loop's catch, which leaves the loop
               /\ calls' = Append(calls, Call("code-review", totalCost(phases), 0, "throw"))
               /\ pc' = "test"
               /\ UNCHANGED <<phases, totalAccumulatedCost>>
            \/ \E c \in Costs, file \in CodeReviewFiles :
                 LET verdict == codeReview(file).verdict IN
                 /\ totalAccumulatedCost' = totalAccumulatedCost + c
                 /\ phases' = Append(phases, PhaseResult("code-review", TRUE, NewSession, c))
                 /\ calls' = Append(calls, Call("code-review", totalCost(phases), c,
                                                ReviewOut(file)))
                 /\ pc' = IF verdict = "pass" THEN "test"
                          ELSE IF codeReviewCycle' < config.maxCodeReviewCycles
                          THEN "execute-fix"
                          ELSE CodeReviewHead(codeReviewCycle')
    /\ UNCHANGED <<input, parser, agent, exitCode, executed, state, locals, planReviewCycle,
                   testFixCycle, fail, v2vars, result, env>>

\* executeFixFromReview; its throw is caught by the code-review loop's catch
ExecuteFix ==
    /\ program = "v1" /\ pc = "execute-fix"
    /\ \/ /\ calls' = Append(calls, AgentCall("execute-fix", totalCost(phases), 0,
                                                "throw", Resumed("execute-fix"), 0))
          /\ pc' = "test"
          /\ UNCHANGED <<phases, planSessionId, totalAccumulatedCost>>
       \/ \* the agent reports sessionId: '' when its stream had no init message
          \E c \in Costs, sessionId \in {0, NewSession} :
            /\ totalAccumulatedCost' = totalAccumulatedCost + c
            /\ phases' = Append(phases, PhaseResult("execute", TRUE, sessionId, c))
            /\ calls' = Append(calls, AgentCall("execute-fix", totalCost(phases), c,
                                                "ok", Resumed("execute-fix"), sessionId))
            /\ planSessionId' = NextSession(planSessionId, sessionId)
            /\ pc' = CodeReviewHead(codeReviewCycle)
    \* diff = getDiff(worktreePath) || previousDiff, and previousDiff is not empty
    /\ UNCHANGED <<input, parser, agent, exitCode, executed, state, projectInfo, worktreePath, diff,
                   lastTestResult, prUrl, baseline, counters, fail, v2vars,
                   result, env>>

\* a test call that overwrites the newest ledger entry with its result
TestCallOverwritesMut(op) ==
    \E ok \in CommandOutcomes :
      LET t == test(projectInfo, baseline, ok)
          r == t.result IN
        /\ executed' = executed \o Executed("test", t.ran)
        /\ phases' = [phases EXCEPT ![Len(phases)] =
                                      PhaseResult("test", r.passed, 0, 0)]
        /\ calls' = Append(calls, Given(Call(op, totalCost(phases), 0,
                                             IF r.passed THEN "passed" ELSE "failed"),
                                        baseline))
        /\ lastTestResult' = r
        /\ pc' = TestFixHead(r, testFixCycle)
\* one call of test(): pushes its entry and replaces lastTestResult
TestCall(op) ==
    \E ok \in CommandOutcomes :
      LET t == test(projectInfo, baseline, ok)
          r == t.result IN
        /\ executed' = executed \o Executed("test", t.ran)
        /\ phases' = Append(phases, PhaseResult("test", r.passed, 0, 0))
        /\ calls' = Append(calls, Given(Call(op, totalCost(phases), 0,
                                             IF r.passed THEN "passed" ELSE "failed"),
                                        baseline))
        /\ lastTestResult' = r
        /\ pc' = TestFixHead(r, testFixCycle)

\* the test section: the first run of the enforced checks
Test ==
    /\ program = "v1" /\ pc = "test"
    /\ state' = "test"
    /\ IF config.skipTests
       THEN pc' = "commit" /\ UNCHANGED <<phases, lastTestResult, calls, executed>>
       ELSE TestCall("test")
    /\ UNCHANGED <<input, parser, agent, exitCode, projectInfo, worktreePath, planSessionId,
                   diff, prUrl, baseline, counters, fail, v2vars,
                   totalAccumulatedCost, result, env>>

\* one iteration of the test-fix loop up to the return of testFix
TestFix ==
    /\ program = "v1" /\ pc = "test-fix"
    /\ testFixCycle' = testFixCycle + 1
    /\ IF budgetExceeded(phases)
       THEN \* 'Budget exceeded, stopping test-fix cycles': break
            /\ pc' = "commit"
            /\ UNCHANGED <<phases, totalAccumulatedCost, calls>>
       ELSE \/ \* testFix throws: caught by the loop's catch, which leaves the loop
               /\ calls' = Append(calls, Given(AgentCall("test-fix", totalCost(phases), 0,
                                                     "throw", Resumed("test-fix"), 0),
                                           baseline))
               /\ pc' = "commit"
               /\ UNCHANGED <<phases, totalAccumulatedCost>>
            \/ \E c \in Costs :
                 /\ totalAccumulatedCost' = totalAccumulatedCost + c
                 /\ phases' = Append(phases, PhaseResult("test-fix", TRUE, NewSession, c))
                 /\ calls' = Append(calls, Given(AgentCall("test-fix", totalCost(phases), c,
                                                     "ok", Resumed("test-fix"), NewSession),
                                           baseline))
                 /\ pc' = "retest"
    /\ UNCHANGED <<input, parser, agent, exitCode, executed, state, locals, planReviewCycle,
                   codeReviewCycle, fail, v2vars, result, env>>

\* a test-fix loop that goes back to its head without re-running the checks
RetestSkippedMut ==
    /\ program = "v1" /\ pc = "retest"
    /\ pc' = TestFixHead(lastTestResult, testFixCycle)
    /\ UNCHANGED <<input, parser, agent, exitCode, executed, state, phases, locals,
                   counters, fail, v2vars, totalAccumulatedCost, result, env,
                   calls>>
\* a re-run whose result is assigned but whose entry is not pushed
RetestUnrecordedMut ==
    /\ program = "v1" /\ pc = "retest"
    /\ \E ok \in CommandOutcomes :
         LET t == test(projectInfo, baseline, ok) IN
           /\ executed' = executed \o Executed("test", t.ran)
           /\ calls' = Append(calls, Given(Call("retest", totalCost(phases), 0,
                                                IF t.result.passed THEN "passed"
                                                                   ELSE "failed"),
                                           baseline))
           /\ lastTestResult' = t.result
           /\ pc' = TestFixHead(t.result, testFixCycle)
    /\ UNCHANGED <<input, parser, agent, exitCode, state, phases, projectInfo,
                   worktreePath, planSessionId, diff, prUrl, baseline, counters,
                   fail, v2vars, totalAccumulatedCost, result, env>>
\* a re-run that first runs the baseline checks again on the changed worktree
RetestRebaselinesMut ==
    /\ program = "v1" /\ pc = "retest"
    /\ TestCall("retest")
    /\ \E ok \in CommandOutcomes : baseline' = runBaselineTests(projectInfo, ok)
    /\ UNCHANGED <<input, parser, agent, exitCode, state, projectInfo, worktreePath,
                   planSessionId, diff, prUrl, counters, fail,
                   v2vars, totalAccumulatedCost, result, env>>
\* the re-run of the enforced checks after a test-fix
Retest ==
    /\ program = "v1" /\ pc = "retest"
    /\ TestCall("retest")
    /\ UNCHANGED <<input, parser, agent, exitCode, state, projectInfo, worktreePath,
                   planSessionId, diff, prUrl, baseline, counters, fail,
                   v2vars, totalAccumulatedCost, result, env>>

\* what git push does: it succeeds, or it throws and the error is logged
PushOutcomes == {"ok", "failed"}
\* what createPr does: it returns a URL, returns no URL, or throws and the
\* error is logged
PrOutcomes == {"url", "no-url", "failed"}

\* what one call of commitPhase can do, given shouldPush
\*   threw: an error left commitPhase; committed: git commit was made;
\*   push, pr: how git push and createPr ended ("none": not called);
\*   removed: commitPhase reached its removeWorktree
CommitOutcomes(shouldPush) ==
    {[threw |-> TRUE, committed |-> FALSE, pushAttempted |-> FALSE,
      prAttempted |-> FALSE, push |-> "none", pr |-> "none", prUrl |-> "",
      removed |-> FALSE]}
    \cup (IF shouldPush
          THEN {[threw |-> TRUE, committed |-> TRUE, pushAttempted |-> FALSE,
                 prAttempted |-> FALSE, push |-> "none", pr |-> "none",
                 prUrl |-> "", removed |-> FALSE]}
               \cup {[threw |-> FALSE, committed |-> TRUE, pushAttempted |-> TRUE,
                      prAttempted |-> TRUE, push |-> ps, pr |-> pr,
                      prUrl |-> IF pr = "url" THEN "url" ELSE "",
                      removed |-> TRUE]
                     : ps \in PushOutcomes, pr \in PrOutcomes}
          ELSE {[threw |-> FALSE, committed |-> TRUE, pushAttempted |-> FALSE,
                 prAttempted |-> FALSE, push |-> "none", pr |-> "none",
                 prUrl |-> "", removed |-> TRUE]})

\* commitPhase
commitPhase(pi, cfg) == CommitOutcomes(pi.canPush /\ ~cfg.noPush)

\* the effect of one call of commitPhase on the repository and the worktree
GitAfter(o) ==
    [commits |-> git.commits + (IF o.committed THEN 1 ELSE 0),
     pushAttempted |-> git.pushAttempted \/ o.pushAttempted,
     prAttempted |-> git.prAttempted \/ o.prAttempted,
     push |-> o.push, pr |-> o.pr]

\* the ControllerResult built from the locals of orchestrate
ControllerResult(status, url, ph) ==
    [status |-> status, prUrl |-> url, phases |-> ph,
     totalCostUsd |-> totalCost(ph)]

\* a status of the success path that reports failing checks as failed
FinalStatusFailedMut(r) ==
    IF r # NoTestResult /\ ~r.passed THEN "failed" ELSE "success"
\* the status of the success path: lastTestResult && !lastTestResult.passed
FinalStatus(r) ==
    IF r # NoTestResult /\ ~r.passed THEN "partial" ELSE "success"

\* the commit section and the return of the success path
Commit ==
    /\ program = "v1" /\ pc = "commit"
    /\ \E o \in commitPhase(projectInfo, config) :
         /\ git' = GitAfter(o)
         /\ IF o.threw
            THEN /\ calls' = Append(calls, Call("commit", totalCost(phases), 0, "throw"))
                 /\ state' = "commit"
                 /\ Catch("commit")
                 /\ UNCHANGED <<phases, prUrl, result, worktree>>
            ELSE /\ calls' = Append(calls, Call("commit", totalCost(phases), 0, "ok"))
                 /\ worktree' = [worktree EXCEPT !.removed = TRUE]
                 /\ phases' = Append(phases, PhaseResult("commit", TRUE, 0, 0))
                 /\ prUrl' = o.prUrl
                 /\ state' = "done"
                 /\ result' = ControllerResult(FinalStatus(lastTestResult),
                                               o.prUrl, phases')
                 /\ pc' = "returned"
                 /\ UNCHANGED fail
    /\ UNCHANGED <<input, parser, agent, exitCode, executed, projectInfo, worktreePath, planSessionId,
                   diff, lastTestResult, baseline, counters, v2vars,
                   totalAccumulatedCost>>

\* a salvage condition that does not look at the diff
salvagesWithoutDiffMut(isDraft, d) ==
    worktreePath # "" /\ config.draftPrOnFailure
\* failWithCleanup: worktreePath && isDraft && config.draftPrOnFailure && diff
salvages(isDraft, d) ==
    worktreePath # "" /\ isDraft /\ config.draftPrOnFailure /\ d # ""

\* the status failWithCleanup returns: prUrl ? 'partial' : 'failed'
FatalStatus(url) == IF url # "" THEN "partial" ELSE "failed"

\* failWithCleanup(summary, isDraft) and the return of its result
FailWithCleanup ==
    /\ program = "v1" /\ pc = "fail"
    /\ IF salvages(fail.isDraft, diff)
       THEN \E o \in commitPhase(projectInfo, config) :
              /\ git' = GitAfter(o)
              /\ worktree' = [worktree EXCEPT !.removed = TRUE]
              /\ IF o.threw
                 THEN /\ calls' = Append(calls, Call("salvage", totalCost(phases), 0, "throw"))
                      /\ UNCHANGED <<phases, prUrl>>
                 ELSE /\ calls' = Append(calls, Call("salvage", totalCost(phases), 0, "ok"))
                      /\ phases' = Append(phases, PhaseResult("commit", TRUE, 0, 0))
                      /\ prUrl' = o.prUrl
       ELSE /\ worktree' = IF worktreePath # ""
                           THEN [worktree EXCEPT !.removed = TRUE] ELSE worktree
            /\ UNCHANGED <<phases, prUrl, git, calls>>
    /\ result' = ControllerResult(FatalStatus(prUrl'), prUrl', phases')
    /\ pc' = "returned"
    /\ UNCHANGED <<input, parser, agent, exitCode, executed, state, projectInfo, worktreePath,
                   planSessionId, diff, lastTestResult, baseline, counters,
                   fail, v2vars, totalAccumulatedCost>>

\* ------------------------------------------------------- runController
\* StageResult (durationMs is never read by the controller)
StageResult(stage, sessionId, cost) ==
    [stage |-> stage, success |-> TRUE, sessionId |-> sessionId,
     costUsd |-> cost]

\* controller.checkBudget, given what getAccumulatedCost() returns
checkBudget(cost) == cost > config.maxTotalBudgetUsd

\* an error leaves the try block of runController
Thrown(message) ==
    /\ pc' = "catch"
    /\ fail' = [summary |-> message, isDraft |-> FALSE]

\* a stage function returns: the controller pushes its stageResult and
\* calls checkBudget
StageReturn(stage, sid, cost, accumulated, nextPc) ==
    /\ stages' = Append(stages, StageResult(stage, sid, cost))
    /\ IF checkBudget(accumulated)
       THEN Thrown("Budget exceeded")
       ELSE pc' = nextPc /\ UNCHANGED fail

\* the head of the simulator loop of a stage, with loop variable n
StageLoop(stage, cap, n, sid, cost, accumulated, simPc, nextPc) ==
    IF ~config.skipReview /\ n < cap
    THEN pc' = simPc /\ UNCHANGED <<stages, fail>>
    ELSE StageReturn(stage, sid, cost, accumulated, nextPc)

\* human-simulator: what runSimulator returns; an agent error, or a plan file
\* that cannot be read, gives approve at no cost
SimulatorVerdicts ==
    [verdict : {"approve", "revise"}, costUsd : Costs, out : {"ok"}]
    \cup {[verdict |-> "approve", costUsd |-> 0, out |-> "error"]}

\* stages/setup: runSetup, and the controller's handling of its return
RunSetup ==
    /\ program = "v2" /\ pc = "runSetup"
    /\ \/ \* the path is invalid, or createWorktree throws: no worktree exists
          /\ Thrown("setup")
          /\ calls' = Append(calls, Call("runSetup", totalAccumulatedCost, 0, "throw"))
          /\ UNCHANGED <<stages, projectInfo, worktreePath, worktree>>
       \/ \* mkdirSync, a .gitignore write, copyFileSync or stageAll throws
          \* after createWorktree has succeeded
          /\ repo.valid
          /\ Thrown("setup")
          /\ worktree' = [worktree EXCEPT !.created = TRUE]
          /\ calls' = Append(calls, Call("runSetup", totalAccumulatedCost, 0, "throw"))
          /\ UNCHANGED <<stages, projectInfo, worktreePath>>
       \/ /\ repo.valid
          /\ projectInfo' =
               [hasGitRemote |-> repo.hasGitRemote,
                canPush |-> canPush(repo),
                lintCommand |-> FALSE, typecheckCommand |-> FALSE,
                testCommand |-> FALSE]
          /\ worktree' = [worktree EXCEPT !.created = TRUE]
          /\ worktreePath' = "wt"
          /\ calls' = Append(calls, Call("runSetup", totalAccumulatedCost, 0, "ok"))
          /\ StageReturn("setup", 0, 0, totalAccumulatedCost, "runPlan")
    /\ UNCHANGED <<input, parser, agent, exitCode, executed, state, phases, planSessionId, diff, lastTestResult,
                   prUrl, baseline, counters, cycle, stageCost, coderSessionId,
                   totalAccumulatedCost, result, git>>

\* runPlan up to the head of its simulator loop: the planner and the
\* validation of .agent/plan.md
RunPlan ==
    /\ program = "v2" /\ pc = "runPlan"
    /\ \/ \* runAgent throws
          /\ Thrown("plan")
          /\ calls' = Append(calls, Call("planner", totalAccumulatedCost, 0, "throw"))
          /\ UNCHANGED <<stages, planSessionId, cycle, stageCost,
                         totalAccumulatedCost, worktree>>
       \/ \E c \in Costs, edits \in BOOLEAN :
            /\ totalAccumulatedCost' = totalAccumulatedCost + c
            \* the planner has Write and Bash: it can change files outside .agent/
            /\ worktree' = [worktree EXCEPT !.dirty = edits]
            /\ \/ \* plan.md is missing or lacks the required sections
                  /\ Thrown("plan")
                  /\ calls' = Append(calls, Call("planner", totalAccumulatedCost, c, "throw"))
                  /\ UNCHANGED <<stages, planSessionId, cycle, stageCost>>
               \/ /\ calls' = Append(calls, Call("planner", totalAccumulatedCost, c, "ok"))
                  /\ planSessionId' = NewSession
                  /\ stageCost' = c
                  /\ cycle' = 0
                  /\ StageLoop("plan", config.maxPlanReviewCycles, 0, NewSession,
                               c, totalAccumulatedCost', "plan-simulator",
                               "runImplement")
    /\ UNCHANGED <<input, parser, agent, exitCode, executed, state, phases, projectInfo, worktreePath, diff,
                   lastTestResult, prUrl, baseline, counters, coderSessionId,
                   result, git>>

\* one iteration of runPlan's loop up to the verdict of the simulator
PlanSimulator ==
    /\ program = "v2" /\ pc = "plan-simulator"
    /\ \E v \in SimulatorVerdicts :
         /\ totalAccumulatedCost' = totalAccumulatedCost + v.costUsd
         /\ stageCost' = stageCost + v.costUsd
         /\ calls' = Append(calls, Call("plan-simulator", totalAccumulatedCost,
                                        v.costUsd, v.verdict))
         /\ IF v.verdict = "approve"
            THEN /\ StageReturn("plan", planSessionId, stageCost',
                                totalAccumulatedCost', "runImplement")
                 /\ UNCHANGED cycle
            ELSE IF cycle < config.maxPlanReviewCycles - 1
            THEN pc' = "plan-revision" /\ UNCHANGED <<stages, fail, cycle>>
            ELSE /\ cycle' = cycle + 1
                 /\ StageLoop("plan", config.maxPlanReviewCycles, cycle + 1,
                              planSessionId, stageCost', totalAccumulatedCost',
                              "plan-simulator", "runImplement")
    /\ UNCHANGED <<input, parser, agent, exitCode, executed, state, phases, locals, counters, coderSessionId,
                   result, env>>

\* the revision of the plan: the planner resumed with the feedback
PlanRevision ==
    /\ program = "v2" /\ pc = "plan-revision"
    /\ \/ /\ Thrown("plan")
          /\ calls' = Append(calls, Call("plan-revision", totalAccumulatedCost, 0, "throw"))
          /\ UNCHANGED <<stages, planSessionId, cycle, stageCost,
                         totalAccumulatedCost>>
       \/ \E c \in Costs :
            /\ totalAccumulatedCost' = totalAccumulatedCost + c
            /\ stageCost' = stageCost + c
            /\ planSessionId' = NewSession
            /\ calls' = Append(calls, Call("plan-revision", totalAccumulatedCost, c, "ok"))
            /\ cycle' = cycle + 1
            /\ StageLoop("plan", config.maxPlanReviewCycles, cycle + 1,
                         NewSession, stageCost', totalAccumulatedCost',
                         "plan-simulator", "runImplement")
    /\ UNCHANGED <<input, parser, agent, exitCode, executed, state, phases, projectInfo, worktreePath, diff,
                   lastTestResult, prUrl, baseline, counters, coderSessionId,
                   result, env>>

\* runImplement up to the head of its simulator loop: the coder and the
\* check that the diff against the baseline is not empty
RunImplement ==
    /\ program = "v2" /\ pc = "runImplement"
    /\ \/ \* runAgent throws, possibly after the coder has edited files
          \E edits \in BOOLEAN :
            /\ worktree' = [worktree EXCEPT !.dirty = worktree.dirty \/ edits]
            /\ Thrown("implement")
            /\ calls' = Append(calls, Call("coder", totalAccumulatedCost, 0, "throw"))
            /\ UNCHANGED <<stages, coderSessionId, cycle, stageCost,
                           totalAccumulatedCost>>
       \/ \E c \in Costs, edits \in BOOLEAN :
            /\ totalAccumulatedCost' = totalAccumulatedCost + c
            /\ worktree' = [worktree EXCEPT !.dirty = worktree.dirty \/ edits]
            /\ IF ~worktree'.dirty
               THEN \* getDiffFromBaseline is empty: 'Coder produced no changes'
                    /\ Thrown("implement")
                    /\ calls' = Append(calls, Call("coder", totalAccumulatedCost, c, "empty"))
                    /\ UNCHANGED <<stages, coderSessionId, cycle, stageCost>>
               ELSE /\ calls' = Append(calls, Call("coder", totalAccumulatedCost, c, "ok"))
                    /\ coderSessionId' = NewSession
                    /\ stageCost' = c
                    /\ cycle' = 0
                    /\ StageLoop("implement", config.maxCodeReviewCycles, 0,
                                 NewSession, c, totalAccumulatedCost',
                                 "implement-simulator", "runCommit")
    /\ UNCHANGED <<input, parser, agent, exitCode, executed, state, phases, locals, counters, result, git>>

\* one iteration of runImplement's loop up to the verdict of the simulator
ImplementSimulator ==
    /\ program = "v2" /\ pc = "implement-simulator"
    /\ \/ \* getDiffStatFromBaseline throws before the simulator agent is started
          /\ Thrown("implement")
          /\ calls' = Append(calls, Call("implement-simulator",
                                         totalAccumulatedCost, 0, "throw"))
          /\ UNCHANGED <<stages, cycle, stageCost, totalAccumulatedCost>>
       \/ \E v \in SimulatorVerdicts :
            /\ totalAccumulatedCost' = totalAccumulatedCost + v.costUsd
            /\ stageCost' = stageCost + v.costUsd
            /\ calls' = Append(calls, Call("implement-simulator",
                                           totalAccumulatedCost, v.costUsd, v.verdict))
            /\ IF v.verdict = "approve"
               THEN /\ StageReturn("implement", coderSessionId, stageCost',
                                   totalAccumulatedCost', "runCommit")
                    /\ UNCHANGED cycle
               ELSE IF cycle < config.maxCodeReviewCycles - 1
               THEN pc' = "implement-fix" /\ UNCHANGED <<stages, fail, cycle>>
               ELSE /\ cycle' = cycle + 1
                    /\ StageLoop("implement", config.maxCodeReviewCycles,
                                 cycle + 1, coderSessionId, stageCost',
                                 totalAccumulatedCost', "implement-simulator",
                                 "runCommit")
    /\ UNCHANGED <<input, parser, agent, exitCode, executed, state, phases, locals, counters, coderSessionId,
                   result, env>>

\* the fix of the review issues: the coder resumed with the feedback
ImplementFix ==
    /\ program = "v2" /\ pc = "implement-fix"
    /\ \/ /\ Thrown("implement")
          /\ calls' = Append(calls, Call("implement-fix", totalAccumulatedCost, 0, "throw"))
          /\ UNCHANGED <<stages, coderSessionId, cycle, stageCost,
                         totalAccumulatedCost>>
       \/ \E c \in Costs :
            /\ totalAccumulatedCost' = totalAccumulatedCost + c
            /\ stageCost' = stageCost + c
            /\ coderSessionId' = NewSession
            /\ calls' = Append(calls, Call("implement-fix", totalAccumulatedCost, c, "ok"))
            /\ cycle' = cycle + 1
            /\ StageLoop("implement", config.maxCodeReviewCycles, cycle + 1,
                         NewSession, stageCost', totalAccumulatedCost',
                         "implement-simulator", "runCommit")
    /\ UNCHANGED <<input, parser, agent, exitCode, executed, state, phases, locals, counters, result, env>>

\* stages/commit: runCommit
runCommit(pi, cfg) == CommitOutcomes(pi.canPush /\ ~cfg.noPush)

\* the ControllerResult of runController
StagesResult(status, url, st, cost) ==
    [status |-> status, prUrl |-> url, stages |-> st, totalCostUsd |-> cost]

\* the commit stage and the return of the success path
RunCommit ==
    /\ program = "v2" /\ pc = "runCommit"
    /\ \E o \in runCommit(projectInfo, config) :
         /\ git' = GitAfter(o)
         /\ IF o.threw
            THEN /\ calls' = Append(calls, Call("runCommit", totalAccumulatedCost, 0, "throw"))
                 /\ Thrown("commit")
                 /\ UNCHANGED <<stages, prUrl, result, worktree>>
            ELSE /\ calls' = Append(calls, Call("runCommit", totalAccumulatedCost, 0, "ok"))
                 /\ worktree' = [worktree EXCEPT !.removed = TRUE]
                 /\ stages' = Append(stages, StageResult("commit", 0, 0))
                 /\ prUrl' = o.prUrl
                 /\ result' = StagesResult("success", o.prUrl, stages',
                                           totalAccumulatedCost)
                 /\ pc' = "returned"
                 /\ UNCHANGED fail
    /\ UNCHANGED <<input, parser, agent, exitCode, executed, state, phases, projectInfo, worktreePath,
                   planSessionId, diff, lastTestResult, baseline, counters,
                   cycle, stageCost, coderSessionId, totalAccumulatedCost>>

\* what the salvage block of the catch can do once it is entered:
\*   threw: getDiffFromBaseline or stageAll threw; committed: the draft commit
\*   was made; pushed: git push succeeded, so createPr was called
SalvageOutcomes ==
    [threw : {TRUE}, committed : {FALSE}, pushed : {FALSE}]
    \cup [threw : {FALSE}, committed : BOOLEAN, pushed : BOOLEAN]

\* the catch block of runController
ControllerCatch ==
    /\ program = "v2" /\ pc = "catch"
    /\ IF config.draftPrOnFailure /\ worktreePath # ""
       THEN \E o \in SalvageOutcomes :
              IF ~o.threw /\ worktree.dirty
              THEN \* the hard-coded projectInfo of the salvage has canPush: true
                   /\ (o.pushed => ~config.noPush)
                   /\ git' = [commits |-> git.commits + (IF o.committed THEN 1 ELSE 0),
                              pushAttempted |-> git.pushAttempted \/ ~config.noPush,
                              prAttempted |-> git.prAttempted \/ o.pushed,
                              push |-> IF config.noPush THEN "none"
                                       ELSE IF o.pushed THEN "ok" ELSE "failed",
                              \* the value createPr returns is not used
                              pr |-> IF o.pushed THEN "discarded" ELSE "none"]
                   /\ calls' = Append(calls, Call("salvage", totalAccumulatedCost, 0, "ok"))
                   /\ worktree' = [worktree EXCEPT !.removed = TRUE]
                   /\ result' = StagesResult("partial", "", stages,
                                             totalAccumulatedCost)
              ELSE /\ (~o.threw => ~(o.committed \/ o.pushed))
                   /\ calls' = Append(calls, Call("salvage", totalAccumulatedCost, 0,
                                                  IF o.threw THEN "throw" ELSE "skip"))
                   /\ worktree' = [worktree EXCEPT !.removed = TRUE]
                   /\ result' = StagesResult("failed", "", stages,
                                             totalAccumulatedCost)
                   /\ UNCHANGED git
       ELSE /\ worktree' = IF worktreePath # ""
                           THEN [worktree EXCEPT !.removed = TRUE] ELSE worktree
            /\ result' = StagesResult("failed", "", stages, totalAccumulatedCost)
            /\ UNCHANGED <<git, calls>>
    /\ pc' = "returned"
    /\ UNCHANGED <<input, parser, agent, exitCode, executed, state, phases, locals, counters, fail, v2vars,
                   totalAccumulatedCost>>

\* ------------------------------------------------ the command-line action
\* an exit code that treats only success as success
ExitCodeSuccessOnlyMut(r) == IF r.status = "success" THEN 0 ELSE 1
\* the argument of process.exit: result.status === 'failed' ? 1 : 0
ExitCode(r) == IF r.status = "failed" THEN 1 ELSE 0

\* the action of either command line after runController has returned
Exit ==
    /\ pc = "returned"
    /\ pc' = "exited"
    /\ exitCode' = <<ExitCode(result)>>
    /\ UNCHANGED <<input, parser, agent, state, phases, locals, counters, fail,
                   v2vars, totalAccumulatedCost, result, env, calls, executed>>

\* ------------------------------------------------------------------ Next
Next ==
    \/ Intake
    \/ Setup
    \/ Baseline
    \/ Plan
    \/ PlanRetry
    \/ PlanReview
    \/ PlanRevise
    \/ Execute
    \/ CodeReview
    \/ ExecuteFix
    \/ Test
    \/ TestFix
    \/ Retest
    \/ Commit
    \/ FailWithCleanup
    \/ RunSetup
    \/ RunPlan
    \/ PlanSimulator
    \/ PlanRevision
    \/ RunImplement
    \/ ImplementSimulator
    \/ ImplementFix
    \/ RunCommit
    \/ ControllerCatch
    \/ Exit

Spec == Init /\ [][Next]_vars
\* every external call eventually returns or throws: no step of a run is
\* postponed forever
LiveSpec == Init /\ [][Next]_vars /\ WF_vars(Next)

\* ------------------------------------------------ the test runner alone
\* The functions of the test runner applied to every ProjectInfo, every
\* TestBaseline and every outcome of the check commands.

\* one call of a runner function: the baseline it was given, what the check
\* commands gave (TRUE: exit code 0), the commands it executed, its result
Ran(op, bl, ok, ran, out) ==
    [op |-> op, bl |-> bl, ok |-> ok, ran |-> ran, out |-> out]

ProjectInfos ==
    [hasGitRemote : {FALSE}, canPush : {FALSE}, lintCommand : BOOLEAN,
     typecheckCommand : BOOLEAN, testCommand : BOOLEAN]

TestBaselines == [runLint : BOOLEAN, runTypecheck : BOOLEAN, runUnit : BOOLEAN]

\* the runner and the parser take no AgentConfig
NoConfig ==
    [skipPlanReview |-> FALSE, skipCodeReview |-> FALSE, skipTests |-> FALSE,
     skipReview |-> FALSE, noPush |-> FALSE, draftPrOnFailure |-> FALSE,
     maxPlanReviewCycles |-> 0, maxCodeReviewCycles |-> 0,
     maxTestFixCycles |-> 0, maxTotalBudgetUsd |-> 0]

\* the variables no runner function and no parser function reads or writes
Aside ==
    <<program, config, repo, state, phases, worktreePath, planSessionId, diff,
      prUrl, planReviewCycle, codeReviewCycle, testFixCycle, fail, stages,
      cycle, stageCost, coderSessionId, totalAccumulatedCost, result,
      worktree, git, exitCode, agent>>

RunnerInit ==
    /\ program = "test-runner"
    /\ config = NoConfig
    /\ repo = StdRepo
    /\ pc = "runner"
    /\ Fresh
    /\ projectInfo \in ProjectInfos
    /\ baseline \in TestBaselines
    /\ lastTestResult = NoTestResult
    /\ calls = <<>>
    /\ executed = <<>>
    /\ text = <<>>
    /\ parsed = NoVerdict

\* runBaselineTests(projectInfo, cwd), its result assigned to baseline
RunBaselineTests ==
    /\ pc = "runner" /\ Len(calls) < MaxRuns
    /\ \E ok \in CommandOutcomes :
         /\ baseline' = runBaselineTests(projectInfo, ok)
         /\ calls' = Append(calls, Ran("runBaselineTests", baseline, ok,
                                       baselineCommands(projectInfo), baseline'))
    /\ executed' = executed \o Executed("baseline", baselineCommands(projectInfo))
    /\ UNCHANGED <<Aside, parser, pc, projectInfo, lastTestResult>>

\* runTests(projectInfo, cwd, baseline), its result assigned to lastTestResult
RunTests ==
    /\ pc = "runner" /\ Len(calls) < MaxRuns
    /\ \E ok \in CommandOutcomes :
         LET t == runTestsFrom(projectInfo, baseline, ok, 1, <<>>) IN
           /\ lastTestResult' = t.result
           /\ executed' = executed \o Executed("test", t.ran)
           /\ calls' = Append(calls, Ran("runTests", baseline, ok, t.ran, t.result))
    /\ UNCHANGED <<Aside, parser, pc, projectInfo, baseline>>

RunnerNext == RunBaselineTests \/ RunTests

RunnerSpec == RunnerInit /\ [][RunnerNext]_vars

\* ------------------------------------------------- the verdict parser alone
\* A text is a sequence of tokens: words, the blank " " and the line break
\* "\n". parseVerdict is applied to every text of at most MaxLines lines
\* made of the lines below.

\* the lines a review is made of
Lines ==
    {<<"VERDICT:", " ", "APPROVE">>,
     <<"VERDICT:", " ", "REVISE">>,
     <<" ", "VERDICT:", " ", "REVISE">>,
     <<"VERDICT:", " ", "REVISE", " ", "APPROVE">>,
     <<"x", " ", "VERDICT:", " ", "APPROVE">>,
     <<"ISSUES:">>,
     <<"1.", " ", "a">>,
     <<"2.", " ", "b">>,
     <<"1.", "a">>,
     <<"x">>,
     <<>>}

\* the report of a review that asks for a revision: the marker line, the
\* ISSUES: line if header is set, three numbered issues and, if gap is set,
\* an ordinary line among them
Report(header, gap) ==
    <<<<"VERDICT:", " ", "REVISE">>>>
    \o (IF header THEN <<<<"ISSUES:">>>> ELSE <<>>)
    \o <<<<"1.", " ", "a">>>>
    \o (IF gap THEN <<<<"x">>>> ELSE <<>>)
    \o <<<<"2.", " ", "b">>, <<"3.", " ", "c">>>>

\* what a review says before its report: nothing, a numbered line, or an
\* approval it then withdraws
Preambles ==
    {<<>>, <<<<"1.", " ", "a">>>>, <<<<"x">>, <<"VERDICT:", " ", "APPROVE">>>>}

\* the reviews that end in a report
Reviews ==
    {pre \o Report(header, gap) :
       pre \in Preambles, header \in BOOLEAN, gap \in BOOLEAN}

\* the tokens that match \d+\.
Numbers == {"1.", "2.", "3."}

\* the lines ls joined by line breaks
RECURSIVE Join(_)
Join(ls) ==
    IF ls = <<>> THEN <<>>
    ELSE IF Len(ls) = 1 THEN ls[1]
    ELSE ls[1] \o <<"\n">> \o Join(Tail(ls))

Texts ==
    {Join(ls) : ls \in UNION {[1..n -> Lines] : n \in 0..MaxLines} \cup Reviews}

\* String.prototype.split('\n'): cur is the line being read
RECURSIVE SplitFrom(_, _)
SplitFrom(s, cur) ==
    IF s = <<>> THEN <<cur>>
    ELSE IF Head(s) = "\n" THEN <<cur>> \o SplitFrom(Tail(s), <<>>)
    ELSE SplitFrom(Tail(s), Append(cur, Head(s)))
Split(s) == SplitFrom(s, <<>>)

\* String.prototype.trim
RECURSIVE TrimStart(_)
TrimStart(l) ==
    IF l # <<>> /\ Head(l) = " " THEN TrimStart(Tail(l)) ELSE l
RECURSIVE TrimEnd(_)
TrimEnd(l) ==
    IF l # <<>> /\ l[Len(l)] = " " THEN TrimEnd(SubSeq(l, 1, Len(l) - 1)) ELSE l
Trim(l) == TrimEnd(TrimStart(l))

\* String.prototype.startsWith and includes, for a one-token argument
StartsWith(l, tok) == l # <<>> /\ l[1] = tok
Includes(l, tok) == \E i \in 1..Len(l) : l[i] = tok

\* /^\d+\.\s/.test(line), and line.replace(/^\d+\.\s*/, '')
IsNumbered(l) == Len(l) >= 2 /\ l[1] \in Numbers /\ l[2] = " "
StripNumber(l) == TrimStart(Tail(l))

\* a scan that runs forward from the first line and stops at the first marker
RECURSIVE FirstVerdictLineMut(_, _)
FirstVerdictLineMut(lines, i) ==
    IF i = 0 THEN 0
    ELSE LET first == FirstVerdictLineMut(lines, i - 1) IN
           IF first # 0 THEN first
           ELSE IF StartsWith(Trim(lines[i]), "VERDICT:") THEN i ELSE 0
\* parseVerdict: the backward scan for the verdict line, from line i down;
\* 0 stands for verdictLineIdx === -1
RECURSIVE LastVerdictLine(_, _)
LastVerdictLine(lines, i) ==
    IF i = 0 THEN 0
    ELSE IF StartsWith(Trim(lines[i]), "VERDICT:") THEN i
    ELSE LastVerdictLine(lines, i - 1)

\* an issue loop that pushes the numbered line as it stands
RECURSIVE IssuesWithNumberMut(_, _)
IssuesWithNumberMut(lines, i) ==
    IF i > Len(lines) THEN <<>>
    ELSE IF IsNumbered(Trim(lines[i]))
         THEN <<Trim(lines[i])>> \o IssuesWithNumberMut(lines, i + 1)
         ELSE IssuesWithNumberMut(lines, i + 1)
\* parseVerdict: the issues collected from line i on
RECURSIVE IssuesFrom(_, _)
IssuesFrom(lines, i) ==
    IF i > Len(lines) THEN <<>>
    ELSE LET line == Trim(lines[i]) IN
           IF StartsWith(line, "ISSUES:") THEN IssuesFrom(lines, i + 1)
           ELSE IF IsNumbered(line)
                THEN <<StripNumber(line)>> \o IssuesFrom(lines, i + 1)
                ELSE IssuesFrom(lines, i + 1)

\* a parser that asks for a revision when it finds no verdict line
UnparsableRevisesMut(t) == [verdict |-> "revise", issues |-> <<>>]
\* parseVerdict: what is returned when no verdict line is found
Unparsable(t) == [verdict |-> "approve", issues |-> <<>>]

\* human-simulator: parseVerdict (feedback is the text itself)
parseVerdict(t) ==
    LET lines == Split(t)
        verdictLineIdx == LastVerdictLine(lines, Len(lines)) IN
      IF verdictLineIdx = 0 THEN Unparsable(t)
      ELSE IF Includes(Trim(lines[verdictLineIdx]), "APPROVE")
           THEN [verdict |-> "approve", issues |-> <<>>]
           ELSE [verdict |-> "revise",
                 issues |-> IssuesFrom(lines, verdictLineIdx + 1)]

ParserInit ==
    /\ program = "parseVerdict"
    /\ config = NoConfig
    /\ repo = StdRepo
    /\ pc = "parse"
    /\ Fresh
    /\ projectInfo = NoProject
    /\ baseline = [runLint |-> FALSE, runTypecheck |-> FALSE, runUnit |-> FALSE]
    /\ lastTestResult = NoTestResult
    /\ calls = <<>>
    /\ executed = <<>>
    /\ text \in Texts
    /\ parsed = NoVerdict

\* runSimulator: const verdict = parseVerdict(result.result)
ParseVerdict ==
    /\ pc = "parse"
    /\ parsed' = parseVerdict(text)
    /\ pc' = "review-loop"
    /\ UNCHANGED <<Aside, text, projectInfo, baseline, lastTestResult, calls,
                   executed>>

\* the review loop of runPlan and runImplement on the verdict returned:
\* if (verdict.verdict === 'approve') break; otherwise the revision follows
ReviewLoop ==
    /\ pc = "review-loop"
    /\ pc' = IF parsed.verdict = "approve" THEN "approved" ELSE "revise"
    /\ UNCHANGED <<Aside, parser, projectInfo, baseline, lastTestResult, calls,
                   executed>>

ParserNext == ParseVerdict \/ ReviewLoop

ParserSpec == ParserInit /\ [][ParserNext]_vars

\* ---------------------------------------------------------- runAgent alone
\* The messages the SDK's query() streams to runAgent: the init message, an
\* assistant message, the result message with its total_cost_usd, and a
\* stream that fails with an error that is not an AbortError.
Message(type, cost) == [type |-> type, total_cost_usd |-> cost]

Endings ==
    {<<>>, <<Message("error", 0)>>} \cup {<<Message("result", c)>> : c \in Costs}

Streams ==
    {<<Message("init", 0)>> \o mid \o end :
        mid \in {<<>>, <<Message("assistant", 0)>>}, end \in Endings}

\* runAgent's budget test, made after every message of the stream
overBudget(budget, total, cost) == budget # 0 /\ total + cost > budget

\* what runAgent returns, with the options and the module total of the call
Returned34(budget, pre, cost, total, out, stopped) ==
    [op |-> "runAgent", maxBudgetUsd |-> budget, pre |-> pre, cost |-> cost,
     total |-> total, out |-> out, aborted |-> stopped]

AgentInit ==
    /\ program = "runAgent"
    /\ config = NoConfig
    /\ repo = StdRepo
    /\ pc = "agent"
    /\ Fresh
    /\ projectInfo = NoProject
    /\ baseline = [runLint |-> FALSE, runTypecheck |-> FALSE, runUnit |-> FALSE]
    /\ lastTestResult = NoTestResult
    /\ calls = <<>>
    /\ executed = <<>>
    /\ text = <<>>
    /\ parsed = NoVerdict

\* the variables runAgent neither reads nor writes
AgentAside ==
    <<program, config, repo, state, phases, worktreePath, planSessionId, diff,
      prUrl, planReviewCycle, codeReviewCycle, testFixCycle, fail, stages,
      cycle, stageCost, coderSessionId, result, worktree, git, exitCode,
      parser, projectInfo, lastTestResult, baseline, executed>>

\* runAgent(options): let costUsd = 0, a new AbortController, query(...)
RunAgent ==
    /\ pc = "agent" /\ Len(calls) < MaxRuns
    /\ \E budget \in Budgets, s \in Streams :
         /\ maxBudgetUsd' = budget
         /\ stream' = s
    /\ costUsd' = 0
    /\ aborted' = FALSE
    /\ pc' = "stream"
    /\ UNCHANGED <<AgentAside, totalAccumulatedCost, calls>>

\* one turn of for await (const message of stream)
NextMessage ==
    /\ pc = "stream" /\ stream # <<>> /\ Head(stream).type # "error"
    /\ LET message == Head(stream) IN
         /\ costUsd' = IF message.type = "result"
                         THEN message.total_cost_usd ELSE costUsd
         /\ totalAccumulatedCost' =
                IF message.type = "result"
                  THEN totalAccumulatedCost + message.total_cost_usd
                  ELSE totalAccumulatedCost
    /\ IF overBudget(maxBudgetUsd, totalAccumulatedCost', costUsd')
         THEN aborted' = TRUE /\ stream' = <<>>
         ELSE aborted' = aborted /\ stream' = Tail(stream)
    /\ UNCHANGED <<AgentAside, maxBudgetUsd, pc, calls>>

\* the stream throws: the catch rethrows whatever is not an AbortError
StreamError ==
    /\ pc = "stream" /\ stream # <<>> /\ Head(stream).type = "error"
    /\ calls' = Append(calls, Returned34(maxBudgetUsd,
                                         totalAccumulatedCost - costUsd, costUsd,
                                         totalAccumulatedCost, "throw", aborted))
    /\ pc' = "agent"
    /\ stream' = <<>>
    /\ UNCHANGED <<AgentAside, maxBudgetUsd, costUsd, aborted,
                   totalAccumulatedCost>>

\* the loop is left, by the end of the stream or by break: return { costUsd }
AgentReturn ==
    /\ pc = "stream" /\ stream = <<>>
    /\ calls' = Append(calls, Returned34(maxBudgetUsd,
                                         totalAccumulatedCost - costUsd, costUsd,
                                         totalAccumulatedCost, "ok", aborted))
    /\ pc' = "agent"
    /\ UNCHANGED <<AgentAside, agent, totalAccumulatedCost>>

AgentNext == RunAgent \/ NextMessage \/ StreamError \/ AgentReturn

AgentSpec == AgentInit /\ [][AgentNext]_vars

\* ---------------------------------------------------------------- claims
Returned == pc = "returned"

\* the calls of the run whose operation is one of ops
CallsOf(ops) == {i \in 1..Len(calls) : calls[i].op \in ops}

\* the number of calls of operation op among the first i calls
Ordinal(op, i) == Cardinality({j \in 1..i : calls[j].op = op})

\* C1 (as stated): when orchestrate returns its ControllerResult, a worktree
\* that was created during the run has been removed, on every exit path.
C1_WorktreeRemovedOnReturn ==
    (program = "v1" /\ Returned /\ worktree.created) => worktree.removed

\* C1: the run in which setup throws after createWorktree has succeeded:
\* orchestrate has returned and the worktree is still there
C1_SetupThrowLeaksWorktree ==
    /\ program = "v1" /\ Returned
    /\ result.status = "failed"
    /\ calls[Len(calls)].op = "setup" /\ calls[Len(calls)].out = "throw"
    /\ worktree.created /\ ~worktree.removed

\* C2: in every reachable state of orchestrate each loop counter is at most
\* its configured cap, and no step of the run decreases or resets a counter.
C2_CountersBoundedAndMonotone ==
    /\ [](program = "v1" =>
            /\ planReviewCycle <= config.maxPlanReviewCycles
            /\ codeReviewCycle <= config.maxCodeReviewCycles
            /\ testFixCycle <= config.maxTestFixCycles)
    /\ [][/\ planReviewCycle' >= planReviewCycle
          /\ codeReviewCycle' >= codeReviewCycle
          /\ testFixCycle' >= testFixCycle]_vars

\* C2: a run in which every loop has reached its cap, the plan-review loop
\* with the largest cap
C2_AllCapsReached ==
    /\ program = "v1" /\ Returned
    /\ config.maxPlanReviewCycles = MaxCap
    /\ planReviewCycle = config.maxPlanReviewCycles
    /\ config.maxCodeReviewCycles > 0
    /\ codeReviewCycle = config.maxCodeReviewCycles
    /\ config.maxTestFixCycles > 0
    /\ testFixCycle = config.maxTestFixCycles

\* C4: on every return path of orchestrate the returned totalCostUsd is the
\* sum of costUsd over the entries of the returned phases list, which is the
\* ledger as it stands at the return (with the commit entry of a salvage).
C4_TotalIsSumOfReturnedPhases ==
    (program = "v1" /\ result.status # "none") =>
        /\ result.phases = phases
        /\ result.totalCostUsd = SumCost(result.phases)

\* C4: a salvage return whose ledger ends with the commit entry, after a
\* plan attempt that threw with a cost the ledger never recorded
C4_SalvageReturnWithCost ==
    /\ program = "v1" /\ Returned
    /\ fail.isDraft /\ result.status = "partial"
    /\ result.phases[Len(result.phases)].phase = "commit"
    /\ result.totalCostUsd > 0
    /\ totalAccumulatedCost > result.totalCostUsd

\* C8: once a plan review of orchestrate has returned reject, no further
\* phase call is made (no revision, execute, code-review, test, commit, and
\* no salvage commit); the run is in failWithCleanup or has returned, and it
\* returns failed with the worktree removed and nothing committed.
C8_RejectTerminatesAtOnce ==
    \A i \in CallsOf({"plan-review"}) :
        calls[i].out = "reject" =>
            /\ i = Len(calls)
            /\ pc \in {"fail", "returned", "exited"}
            /\ fail # NoFail /\ ~fail.isDraft
            /\ Returned =>
                 /\ result.status = "failed"
                 /\ worktree.removed
                 /\ git.commits = 0
                 /\ ~git.pushAttempted /\ ~git.prAttempted

\* C8: a run that has returned after a reject in its last allowed cycle, with
\* the budget not exceeded
C8_RejectedInLastCycle ==
    /\ program = "v1" /\ Returned
    /\ calls[Len(calls)].op = "plan-review" /\ calls[Len(calls)].out = "reject"
    /\ planReviewCycle = MaxCap
    /\ ~budgetExceeded(phases)
    /\ fail.summary = "Plan rejected"

\* C3: under the assumption that every external call eventually returns or
\* throws, every run of orchestrate and of runController eventually returns
\* a ControllerResult whose status is success, partial or failed.
C3_EveryRunReturns ==
    <>(Returned /\ result.status \in {"success", "partial", "failed"})

\* C3: a run of orchestrate that returned after its test-fix loop ran to the
\* largest cap with the checks still failing
C3_ReturnedAfterFullLoop ==
    /\ program = "v1" /\ Returned
    /\ config.maxTestFixCycles = MaxCap /\ testFixCycle = MaxCap
    /\ ~lastTestResult.passed /\ lastTestResult # NoTestResult
    /\ result.status \in {"success", "partial", "failed"}

\* C5 (as stated): on every return path of runController the returned
\* totalCostUsd is the sum of costUsd over the returned stages list.
C5_TotalIsSumOfReturnedStages ==
    (program = "v2" /\ result.status # "none") =>
        result.totalCostUsd = SumCost(result.stages)

\* C5: runPlan threw after the planner had reported its cost: the returned
\* total counts a cost that no returned stage carries
C5_ThrownStageCostInTotal ==
    /\ program = "v2" /\ Returned
    /\ \E i \in CallsOf({"planner"}) :
         calls[i].out = "throw" /\ calls[i].cost > 0
    /\ result.totalCostUsd > SumCost(result.stages)

\* the operations of orchestrate that incur cost
CostlyOps ==
    {"plan", "plan-review", "plan-revise", "execute", "code-review",
     "execute-fix", "test-fix"}

\* C6 (as stated): orchestrate compares the cumulative cost with the budget
\* before every cost-incurring phase, so none starts with the budget already
\* exceeded, and after every one, so that a ledger whose budget is exceeded
\* after such a phase always has the run in failWithCleanup or returned by it
\* (stated for the runs whose budget is positive).
C6_BudgetCheckedAroundEveryPhase ==
    (program = "v1" /\ config.maxTotalBudgetUsd > 0) =>
        /\ \A i \in CallsOf(CostlyOps) :
             ~(calls[i].pre >= config.maxTotalBudgetUsd)
        /\ (budgetExceeded(phases) /\ CallsOf(CostlyOps) # {}) =>
             (pc \in {"fail", "returned", "exited"} /\ fail # NoFail)

\* C6: a run that exceeded its budget in execute, skipped the code review and
\* the test-fix cycles for that reason, and returned from the success path
C6_ExceededRunReturnsFromSuccessPath ==
    /\ program = "v1" /\ Returned
    /\ fail = NoFail
    /\ config.maxTotalBudgetUsd > 0
    /\ budgetExceeded(phases)
    /\ codeReviewCycle = 1 /\ CallsOf({"code-review"}) = {}
    /\ result.status \in {"success", "partial"}

\* the cumulative cost right after the plan phase exceeds the budget:
\* orchestrate's ledger after its first successful plan invocation,
\* runController's stage costs after runPlan has returned
ExceededAfterPlan ==
    IF program = "v1"
    THEN \E i \in CallsOf({"plan"}) :
           /\ calls[i].out = "ok"
           /\ calls[i].pre + calls[i].cost > config.maxTotalBudgetUsd
    ELSE /\ Len(stages) >= 2
         /\ stages[1].costUsd + stages[2].costUsd > config.maxTotalBudgetUsd

\* C7: in a run whose cumulative cost right after the plan phase exceeds
\* maxTotalBudgetUsd, the execute agent (v2: the coder of implement) is never
\* called, the success path is never taken, and the status returned is
\* failed unless the worktree holds a diff (which only runController reads).
C7_NoExecuteOnceBudgetExceededAfterPlan ==
    ExceededAfterPlan =>
        /\ CallsOf({"execute", "execute-fix", "coder", "implement-fix"}) = {}
        /\ pc \notin {"code-review", "execute-fix", "test", "test-fix",
                       "retest", "commit", "runCommit", "implement-simulator",
                       "implement-fix"}
        /\ Returned =>
             /\ result.status # "success"
             /\ (program = "v1" \/ ~worktree.dirty) => result.status = "failed"

\* C7: a run of orchestrate whose plan alone cost more than the budget, with
\* plan review not skipped: the review was still called, and the run has
\* returned failed
C7_PlanOverBudgetThenFailed ==
    /\ program = "v1" /\ Returned /\ ExceededAfterPlan
    /\ ~config.skipPlanReview /\ config.maxPlanReviewCycles > 0
    /\ CallsOf({"plan-review"}) # {}
    /\ result.status = "failed"

C10_FailingTestsDegradeToPartial ==
    /\ [][(program = "v1" /\ pc \in {"test", "test-fix", "retest"}) =>
            pc' \in {"test-fix", "retest", "commit"}]_vars
    /\ []((program = "v1" /\ Returned /\ fail = NoFail) =>
            result.status =
              IF lastTestResult # NoTestResult /\ ~lastTestResult.passed
              THEN "partial" ELSE "success")

\* C10: the test-fix loop ran to the largest cap with the checks still
\* failing, commit completed, and the run returned partial
C10_PartialAfterExhaustedFixes ==
    /\ program = "v1" /\ Returned /\ fail = NoFail
    /\ config.maxTestFixCycles = MaxCap /\ testFixCycle = MaxCap
    /\ Ordinal("test-fix", Len(calls)) = MaxCap
    /\ ~lastTestResult.passed
    /\ result.status = "partial"

\* the run is on the fatal path of orchestrate: failWithCleanup was called
Fatal == fail # NoFail

\* C11 (as stated): when orchestrate has returned from a fatal error with a
\* worktree, changed files in that worktree and draftPrOnFailure, a salvage
\* commit was attempted.
C11_SalvageWheneverWorktreeChanged ==
    (program = "v1" /\ Returned /\ Fatal /\ worktreePath # ""
       /\ worktree.dirty /\ config.draftPrOnFailure)
    => CallsOf({"salvage"}) # {}

\* C11: execute throws after the agent has changed files: orchestrate returns
\* failed and no salvage commit was attempted
C11_ExecuteThrowNotSalvaged ==
    /\ program = "v1" /\ Returned /\ Fatal
    /\ calls[Len(calls)].op = "execute" /\ calls[Len(calls)].out = "throw"
    /\ worktreePath # "" /\ worktree.dirty /\ config.draftPrOnFailure
    /\ diff = ""
    /\ git.commits = 0
    /\ result.status = "failed"

\* C12 (as stated): on the fatal path of orchestrate the status is partial
\* whenever a diff is present and the salvage commit was made or attempted,
\* whatever canPush, noPush and the PR URL are, and failed when no diff is
\* present.
C12_FatalStatusFollowsTable ==
    (program = "v1" /\ Returned /\ Fatal)
    => /\ (diff # "" /\ CallsOf({"salvage"}) # {}) => result.status = "partial"
       /\ diff = "" => result.status = "failed"

\* C12: the salvage commit was made from a non-empty diff but no PR URL was
\* obtained: orchestrate returns failed
C12_SalvagedWithoutUrlIsFailed ==
    /\ program = "v1" /\ Returned /\ Fatal
    /\ diff # ""
    /\ calls[Len(calls)].op = "salvage" /\ calls[Len(calls)].out = "ok"
    /\ git.commits > 0
    /\ result.prUrl = ""
    /\ result.status = "failed"

\* the last call of commitPhase of the run got as far as git push
PushReached == git.push # "none"

\* C13 (as stated): once commitPhase has reached git push, in the commit
\* section or in salvage, then whatever push and createPr do the status
\* orchestrate returns is the one it returns when push succeeds and createPr
\* gives a URL, no error has left commitPhase, and the worktree is removed.
C13_PushAndPrFailureNeverEscalate ==
    (program = "v1" /\ Returned /\ PushReached)
    => /\ calls[Len(calls)].out = "ok"
       /\ worktree.removed
       /\ result.status = IF Fatal THEN FatalStatus("url")
                          ELSE FinalStatus(lastTestResult)

\* C13: in salvage the push succeeds and createPr throws: the worktree is
\* removed and no error propagates, but orchestrate returns failed where it
\* returns partial when createPr succeeds
C13_SalvagePrFailureIsFailed ==
    /\ program = "v1" /\ Returned /\ Fatal
    /\ calls[Len(calls)].op = "salvage" /\ calls[Len(calls)].out = "ok"
    /\ git.push = "ok" /\ git.pr = "failed"
    /\ worktree.removed
    /\ result.status = "failed"
    /\ FatalStatus("url") = "partial"

\* the agent returned and the diff of the worktree was empty: execute
\* (v2: runImplement) threw its 'no changes' error
EmptyDiff ==
    \E i \in CallsOf({"execute", "coder"}) : calls[i].out = "empty"

\* the entries of the ledger (v2: of stages) that a commit phase pushed
CommitEntries ==
    {i \in 1..Len(phases) : phases[i].phase = "commit"}
    \cup {i \in 1..Len(stages) : stages[i].stage = "commit"}

\* C14: once the agent has produced an empty diff in execute (v2: implement),
\* no commit entry is ever recorded, no commit, push or PR is made, in the
\* commit phase or in salvage, and the run returns failed with the worktree
\* removed.
C14_EmptyDiffFailsWithoutCommit ==
    EmptyDiff
    => /\ CommitEntries = {}
       /\ CallsOf({"commit", "runCommit"}) = {}
       /\ git.commits = 0 /\ ~git.pushAttempted /\ ~git.prAttempted
       /\ Returned => (result.status = "failed" /\ worktree.removed)

\* C14: orchestrate has returned after execute found an empty diff, the agent
\* having been paid for
C14_ReturnedAfterEmptyDiff ==
    /\ program = "v1" /\ Returned /\ EmptyDiff
    /\ config.draftPrOnFailure
    /\ calls[Len(calls)].op = "execute" /\ calls[Len(calls)].cost > 0
    /\ result.status = "failed"
    /\ worktree.created /\ worktree.removed

\* the categories as a set
CategorySet == {Categories[k] : k \in 1..Len(Categories)}

\* ok1 and ok2 give the same outcome for every category bl enforces
SameOnEnforced(bl, ok1, ok2) ==
    \A c \in CategorySet : Enforce(bl, c) => ok1[c] = ok2[c]

\* C15: after the baseline step a check command is executed only if its
\* category passed at baseline; a failing test result names a category that
\* passed at baseline; what a call of the test phase returns does not depend
\* on the outcome of a command whose category is not enforced, and so neither
\* does a partial status of the success path.
C15_OnlyBaselinePassedEnforced ==
    program = "v1"
    => /\ \A i \in 1..Len(executed) :
            executed[i].at = "test" => Enforce(baseline, executed[i].category)
       /\ (lastTestResult # NoTestResult /\ ~lastTestResult.passed)
            => Enforce(baseline, lastTestResult.failureCategory)
       /\ pc \in {"test", "retest"}
            => \A ok1, ok2 \in CommandOutcomes :
                 SameOnEnforced(baseline, ok1, ok2)
                 => test(projectInfo, baseline, ok1)
                      = test(projectInfo, baseline, ok2)
       /\ (Returned /\ ~Fatal /\ result.status = "partial")
            => Enforce(baseline, lastTestResult.failureCategory)

\* C15: lint failed and the unit tests passed at baseline; the test phase has
\* run the unit tests and not the lint command, and the run succeeded
C15_LintExcludedUnitEnforced ==
    /\ program = "v1" /\ Returned
    /\ projectInfo.lintCommand /\ projectInfo.testCommand
    /\ ~baseline.runLint /\ baseline.runUnit
    /\ \E i \in 1..Len(executed) :
         executed[i] = [at |-> "baseline", category |-> "lint"]
    /\ \E i \in 1..Len(executed) :
         executed[i] = [at |-> "test", category |-> "unit"]
    /\ ~\E i \in 1..Len(executed) :
         executed[i] = [at |-> "test", category |-> "lint"]
    /\ result.status = "success"

\* the TestBaseline in which no category is enforced
NothingEnforced == [runLint |-> FALSE, runTypecheck |-> FALSE, runUnit |-> FALSE]

\* C16: while the TestBaseline is {false, false, false}, no check command is
\* executed by the test phase, every result of the test phase is passed with
\* exit code 0 and the explanatory output, and the test-fix loop is never
\* entered.
C16_NothingEnforcedIsNoOp ==
    (program = "v1" /\ baseline = NothingEnforced)
    => /\ \A i \in 1..Len(executed) : executed[i].at # "test"
       /\ lastTestResult # NoTestResult
            => /\ lastTestResult.passed
               /\ lastTestResult.exitCode = 0
               /\ lastTestResult.output = NoChecksOutput
       /\ testFixCycle = 0
       /\ pc \notin {"test-fix", "retest"}
       /\ CallsOf({"test-fix", "retest"}) = {}

\* C16: the unit tests, the only check defined, failed at baseline; the test
\* phase has been called with test-fix cycles allowed and the run succeeded
C16_TestPhaseWithNothingEnforced ==
    /\ program = "v1" /\ Returned
    /\ projectInfo.testCommand
    /\ executed = <<[at |-> "baseline", category |-> "unit"]>>
    /\ baseline = NothingEnforced
    /\ CallsOf({"test"}) # {}
    /\ lastTestResult.passed
    /\ config.maxTestFixCycles > 0
    /\ result.status = "success"

\* the place of a category in the order lint, typecheck, unit
Rank(c) ==
    CASE c = "lint" -> 1
      [] c = "typecheck" -> 2
      [] c = "unit" -> 3

\* the categories runTests enforces in the call e: the baseline flag is set
\* and the command is defined
EnforcedIn(e) ==
    {c \in CategorySet : Enforce(e.bl, c) /\ Command(projectInfo, c)}

\* C17: every call of runTests executes commands of enforced categories only,
\* in the order lint, typecheck, unit and without skipping one; every command
\* but the last it executed passed; if an enforced command fails, the result
\* is the failure of the first such category with its output and that command
\* is the last one executed; otherwise every enforced command was executed
\* and the result is passed with exit code 0.
C17_FixedOrderStopAtFirstFailure ==
    \A i \in CallsOf({"runTests"}) :
      LET e == calls[i]
          n == Len(e.ran)
          failing == {c \in EnforcedIn(e) : ~e.ok[c]} IN
        /\ \A a \in 1..n : e.ran[a] \in EnforcedIn(e)
        /\ \A a, b \in 1..n : a < b => Rank(e.ran[a]) < Rank(e.ran[b])
        /\ \A a \in 1..n : a < n => e.ok[e.ran[a]]
        /\ \A c \in EnforcedIn(e) :
             (n > 0 /\ Rank(c) < Rank(e.ran[n])) => \E a \in 1..n : e.ran[a] = c
        /\ IF failing # {}
           THEN LET f == CHOOSE c \in failing :
                           \A d \in failing : Rank(c) <= Rank(d) IN
                  /\ ~e.out.passed
                  /\ e.out.failureCategory = f
                  /\ e.out.output = Failed(f).output
                  /\ e.ran[n] = f
           ELSE /\ e.out.passed /\ e.out.exitCode = 0
                /\ {e.ran[a] : a \in 1..n} = EnforcedIn(e)

\* C17: all three categories are enforced, lint passes, typecheck and unit
\* would fail: runTests has run lint and typecheck and reports typecheck
C17_StoppedAtTypecheck ==
    \E i \in CallsOf({"runTests"}) :
      /\ EnforcedIn(calls[i]) = CategorySet
      /\ calls[i].ok = [lint |-> TRUE, typecheck |-> FALSE, unit |-> FALSE]
      /\ calls[i].ran = <<"lint", "typecheck">>
      /\ calls[i].out.failureCategory = "typecheck"
      /\ lastTestResult = calls[i].out

MarkerLines(t) ==
    {i \in 1..Len(Split(t)) : StartsWith(Trim(Split(t)[i]), "VERDICT:")}

\* the largest element of a non-empty set of numbers
Last(S) == CHOOSE i \in S : \A j \in S : j <= i

\* parseVerdict has been applied to text
Parsed == parsed # NoVerdict

\* C19: when the text has a marker line, the verdict is read from the last of
\* them alone: approve if that line contains APPROVE and revise otherwise,
\* and the whole result is the one parseVerdict gives for the text cut down
\* to its last marker line and what follows it; if the last marker line is
\* 'VERDICT: APPROVE', the result is approve with no issues.
C19_VerdictFromLastMarkerLine ==
    (Parsed /\ MarkerLines(text) # {})
    => LET lines == Split(text)
           last == Last(MarkerLines(text)) IN
         /\ parsed.verdict = IF Includes(lines[last], "APPROVE")
                             THEN "approve" ELSE "revise"
         /\ parsed = parseVerdict(Join(SubSeq(lines, last, Len(lines))))
         /\ lines[last] = <<"VERDICT:", " ", "APPROVE">>
              => parsed = [verdict |-> "approve", issues |-> <<>>]

\* C19: a text with a REVISE marker line and numbered lines, then a line
\* that mentions the marker, then 'VERDICT: APPROVE' as its last line, has
\* been parsed as approve with no issues
C19_ApproveAfterEarlierRevise ==
    /\ Parsed
    /\ \E i \in MarkerLines(text) :
         /\ i < Last(MarkerLines(text))
         /\ Split(text)[i] = <<"VERDICT:", " ", "REVISE">>
         /\ IsNumbered(Split(text)[i + 1])
    /\ Split(text)[Len(Split(text))] = <<"VERDICT:", " ", "APPROVE">>
    /\ parsed = [verdict |-> "approve", issues |-> <<>>]

\* C20: a text without a marker line is parsed as approve with no issues, and
\* the review loop that receives this verdict is left, never continued with
\* a revision.
C20_NoMarkerDefaultsToApprove ==
    (Parsed /\ MarkerLines(text) = {})
    => /\ parsed = [verdict |-> "approve", issues |-> <<>>]
       /\ pc # "revise"

\* C20: a text of REVISE and numbered issue lines, none of them a marker
\* line, has been parsed and the review loop has been left
C20_UnparsableReviewApproved ==
    /\ pc = "approved"
    /\ MarkerLines(text) = {}
    /\ Len(Split(text)) = MaxLines
    /\ Split(text)[1] = <<"x", " ", "VERDICT:", " ", "APPROVE">>
    /\ \E i \in 1..Len(Split(text)) : IsNumbered(Split(text)[i])
    /\ parsed.verdict = "approve"

\* the lines of t after line k that match the numbered-list pattern
NumberedAfter(t, k) ==
    {i \in (k + 1)..Len(Split(t)) : IsNumbered(Trim(Split(t)[i]))}

\* the n-th smallest element of the set of numbers S
RECURSIVE Nth(_, _)
Nth(S, n) ==
    LET least == CHOOSE i \in S : \A j \in S : i <= j IN
      IF n = 1 THEN least ELSE Nth(S \ {least}, n - 1)

\* C21: when the last marker line is 'VERDICT: REVISE', the verdict is
\* revise and the issues are the numbered lines after the marker line, one
\* issue per such line, in the order of the lines, each without its number
\* and the blank after it; no other line gives an issue.
C21_IssuesAreNumberedLinesAfterMarker ==
    (/\ Parsed /\ MarkerLines(text) # {}
     /\ Trim(Split(text)[Last(MarkerLines(text))]) = <<"VERDICT:", " ", "REVISE">>)
    => LET lines == Split(text)
           numbered == NumberedAfter(text, Last(MarkerLines(text))) IN
         /\ parsed.verdict = "revise"
         /\ Len(parsed.issues) = Cardinality(numbered)
         /\ \A n \in 1..Len(parsed.issues) :
              LET line == Trim(lines[Nth(numbered, n)]) IN
                parsed.issues[n] = SubSeq(line, 3, Len(line))

\* C21: a review with a numbered line before the marker, then
\* 'VERDICT: REVISE', 'ISSUES:', and three numbered lines with an ordinary
\* line among them, has been parsed into exactly the three issues, in order
C21_ThreeIssuesInOrder ==
    /\ Parsed
    /\ Split(text) = <<<<"1.", " ", "a">>>> \o Report(TRUE, TRUE)
    /\ parsed = [verdict |-> "revise", issues |-> <<<<"a">>, <<"b">>, <<"c">>>>]

\* C22: once the command line has exited, its exit code is 0 if the status
\* of the ControllerResult is success or partial, and it is not 0 if the
\* status is failed.
C22_ExitCodeFollowsStatus ==
    pc = "exited"
    => /\ result.status \in {"success", "partial", "failed"}
       /\ result.status \in {"success", "partial"} => exitCode = <<0>>
       /\ result.status = "failed" => exitCode # <<>> /\ exitCode # <<0>>

\* C22: a run whose status is partial has exited with code 0
C22_PartialExitsZero ==
    pc = "exited" /\ result.status = "partial" /\ exitCode = <<0>>

\* C23: the ProjectInfo that intake or runSetup produced has canPush only
\* if it has a remote; for a repository without a remote canPush is false
\* whatever the reachability probe would answer.
C23_CanPushImpliesRemote ==
    /\ projectInfo.canPush => projectInfo.hasGitRemote
    /\ (projectInfo # NoProject /\ ~repo.hasGitRemote) => ~projectInfo.canPush

\* C23: intake, or runSetup, has returned the ProjectInfo of a repository
\* that has no remote and whose probe would succeed, with canPush false
C23_NoRemoteProbeWouldSucceed ==
    /\ \E i \in 1..Len(calls) :
         calls[i].op \in {"intake", "runSetup"} /\ calls[i].out = "ok"
    /\ ~repo.hasGitRemote /\ repo.reachable
    /\ ~projectInfo.canPush

\* the revision and fix steps of the three loops of orchestrate
FixOps == {"plan-revise", "execute-fix", "test-fix"}

\* the validation steps of the loop that fix step op belongs to
Validations(op) ==
    CASE op = "plan-revise" -> {"plan-review"}
      [] op = "execute-fix" -> {"code-review"}
      [] op = "test-fix" -> {"test", "retest"}

\* the re-validation step after fix step op, and the position of the run
\* that is about to make it
Revalidation(op) ==
    CASE op = "plan-revise" -> "plan-review"
      [] op = "execute-fix" -> "code-review"
      [] op = "test-fix" -> "retest"

\* C24: in each loop of orchestrate a revision or fix step comes directly
\* after a validation step of its loop that did not approve (a revise or
\* fail verdict, a failing test result), and the next step of the run after
\* it is the re-validation step of that loop: the run never goes on to a
\* later phase, and never makes another fix, without it.
C24_FixBetweenVerdictAndRevalidation ==
    \A i \in CallsOf(FixOps) :
      /\ i > 1
      /\ calls[i - 1].op \in Validations(calls[i].op)
      /\ calls[i - 1].out \in {"revise", "fail", "failed"}
      /\ IF i < Len(calls)
         THEN calls[i + 1].op = Revalidation(calls[i].op)
         ELSE pc = Revalidation(calls[i].op)

\* C24: a fix from the code review has returned and the next step of the
\* run was the test phase, with no code review of the fix
C24_FixTestedWithoutReview ==
    \E i \in CallsOf({"execute-fix"}) :
      /\ calls[i].out = "ok"
      /\ i < Len(calls)
      /\ calls[i + 1].op = "test"

\* the phases of orchestrate whose collaborator can throw, as the calls log
\* names their steps
PhaseOps ==
    {"intake", "setup", "plan", "plan-review", "plan-revise", "execute",
     "code-review", "execute-fix", "test-fix", "commit"}

\* the value of state while step op is in flight
InFlight(op) ==
    CASE op = "plan-revise" -> "plan-review"
      [] op = "execute-fix" -> "code-review"
      [] op = "test-fix" -> "test"
      [] OTHER -> op

\* the calls of a phase step that ended in a thrown error; the first throw
\* of the initial plan, which is retried within the plan phase, is not one
ThrownPhaseCalls ==
    {i \in CallsOf(PhaseOps) :
       /\ calls[i].out \in {"throw", "empty"}
       /\ ~(calls[i].op = "plan" /\ CallsOf({"plan"}) \cap 1..(i - 1) = {})}

\* C25: in orchestrate an error thrown inside a phase reaches the top-level
\* handler: the run is in failWithCleanup or has returned from it, with the
\* summary naming the phase that was in flight, and no step of a phase was
\* made after the throw.
C25_ThrownErrorIsFatal ==
    program = "v1"
    => \A i \in ThrownPhaseCalls :
         /\ pc \in {"fail", "returned", "exited"}
         /\ fail.summary = InFlight(calls[i].op)
         /\ \A j \in (i + 1)..Len(calls) : calls[j].op = "salvage"

\* C25: the plan review threw and the run went on to execute the plan
C25_ExecuteAfterPlanReviewThrew ==
    \E i \in CallsOf({"plan-review"}) :
      /\ calls[i].out = "throw"
      /\ i < Len(calls)
      /\ calls[i + 1].op = "execute"
      /\ calls[i + 1].out = "ok"

\* the steps of orchestrate that come after the initial planning
AfterPlanOps ==
    {"plan-review", "plan-revise", "execute", "code-review", "execute-fix",
     "test", "retest", "test-fix", "commit"}

\* C26: the initial plan is invoked at most twice, and a second time exactly
\* when the first invocation threw, directly after it; when the second
\* invocation throws the run makes no further phase step and returns failed
\* with the worktree removed; no later phase runs unless an invocation of
\* the initial plan has succeeded.
C26_PlanRetriedExactlyOnce ==
    program = "v1"
    => LET P == CallsOf({"plan"}) IN
         /\ Cardinality(P) <= 2
         /\ \A i \in P :
              IF P \cap 1..(i - 1) = {}
              THEN IF calls[i].out = "throw"
                   THEN IF i = Len(calls) THEN pc = "plan-retry"
                        ELSE calls[i + 1].op = "plan"
                   ELSE Cardinality(P) = 1
              ELSE /\ calls[i - 1].op = "plan" /\ calls[i - 1].out = "throw"
                   /\ calls[i].out = "throw"
                      => /\ i = Len(calls)
                         /\ pc \in {"fail", "returned", "exited"}
                         /\ pc \in {"returned", "exited"}
                            => /\ result.status = "failed"
                               /\ worktree.removed
         /\ \A j \in CallsOf(AfterPlanOps) :
              \E i \in P : i < j /\ calls[i].out = "ok"

\* C26: both invocations of the initial plan threw and the run has returned
C26_ReturnedAfterSecondPlanThrow ==
    /\ Returned
    /\ \E i \in CallsOf({"plan"}) :
         /\ i < Len(calls)
         /\ calls[i].out = "throw"
         /\ calls[i + 1].op = "plan" /\ calls[i + 1].out = "throw"
    /\ result.status = "failed"
    /\ worktree.removed

\* the invocations of plan(): the initial plan, its retry and the revisions
PlanOps == {"plan", "plan-revise"}

\* C27: when execute is invoked, the most recent invocation of plan, initial
\* or revision, returned: its plan document existed and had every required
\* section.
C27_ExecuteOnlyAfterValidPlan ==
    \A j \in CallsOf({"execute"}) :
      /\ CallsOf(PlanOps) \cap 1..j # {}
      /\ calls[Last(CallsOf(PlanOps) \cap 1..j)].out = "ok"

\* C27: a plan revision threw, for a missing document or section, and
\* execute was invoked next and returned
C27_ExecuteAfterInvalidRevision ==
    \E i \in CallsOf({"plan-revise"}) :
      /\ calls[i].out = "throw"
      /\ i < Len(calls)
      /\ calls[i + 1].op = "execute"
      /\ calls[i + 1].out = "ok"

\* the calls of a review whose output file could not be read or parsed
UnparsableReviews ==
    {i \in CallsOf({"plan-review", "code-review"}) : calls[i].out = "unparsable"}

\* C28: a review whose output cannot be read or parsed yields approve with
\* empty feedback (planReview) or pass with no issues (codeReview); its
\* phase result is recorded with the cost of the agent call; and the run
\* goes on as after a genuine approve or pass: out of the plan-review loop
\* to execute, unless the budget check after the review fails the run as it
\* would after an approve, and out of the code-review loop to test.
C28_UnparsableReviewIsApproval ==
    /\ \A f \in PlanReviewFiles :
         ~f.parsable => planReview(f) = [verdict |-> "approve", feedback |-> <<>>]
    /\ \A f \in CodeReviewFiles :
         ~f.parsable => codeReview(f) = [verdict |-> "pass", issues |-> <<>>]
    /\ \A i \in UnparsableReviews :
         /\ i = Len(calls) /\ pc \notin {"fail", "returned", "exited"}
            => /\ phases[Len(phases)].phase = calls[i].op
               /\ phases[Len(phases)].costUsd = calls[i].cost
               /\ totalCost(phases) = calls[i].pre + calls[i].cost
         /\ IF calls[i].op = "plan-review"
            THEN IF calls[i].pre + calls[i].cost >= config.maxTotalBudgetUsd
                 THEN /\ i = Len(calls)
                      /\ pc \in {"fail", "returned", "exited"}
                      /\ fail.summary = "Budget exceeded during plan review"
                 ELSE IF i = Len(calls) THEN pc = "execute"
                      ELSE calls[i + 1].op = "execute"
            ELSE IF i = Len(calls)
                 THEN pc = "test" \/ (config.skipTests /\ pc = "commit")
                 ELSE calls[i + 1].op
                        = IF config.skipTests THEN "commit" ELSE "test"

\* C28: a plan review and a code review of one run were both unparsable,
\* the second at a cost, and the run has gone on to the test phase
C28_BothReviewsUnparsable ==
    /\ \E i \in UnparsableReviews : calls[i].op = "plan-review"
    /\ \E i \in UnparsableReviews :
         calls[i].op = "code-review" /\ calls[i].cost > 0
    /\ CallsOf({"test"}) # {}

\* C29: when the repository path does not exist or is not a git repository,
\* no worktree is created, no agent is invoked (the only call made is the
\* validating one, which throws), no commit, push or PR is attempted, and
\* the run returns with status failed.
C29_InvalidRepoFailsUntouched ==
    ~repo.valid /\ program \in {"v1", "v2"}
    => /\ ~worktree.created /\ worktreePath = ""
       /\ \A i \in 1..Len(calls) :
            /\ i = 1
            /\ calls[i].op = (IF program = "v1" THEN "intake" ELSE "runSetup")
            /\ calls[i].out = "throw"
       /\ totalAccumulatedCost = 0
       /\ git.commits = 0 /\ ~git.pushAttempted /\ ~git.prAttempted
       /\ phases = <<>> /\ stages = <<>>
       /\ pc \in {"returned", "exited"} => result.status = "failed"

\* C29: orchestrate has returned failed for a path that is not a repository,
\* with salvage as a draft PR enabled
C29_ReturnedForInvalidRepo ==
    /\ Returned /\ program = "v1"
    /\ ~repo.valid
    /\ config.draftPrOnFailure /\ ~config.noPush
    /\ result.status = "failed"
    /\ calls = <<Call("intake", 0, 0, "throw")>>

\* the phase names of the ledger, in order
Ledger == [i \in 1..Len(phases) |-> phases[i].phase]

\* the entries that may directly follow an entry of phase p in the ledger
Successors(p) ==
    CASE p = "intake" -> {"setup"}
      [] p = "setup" -> {"plan"}
      [] p = "plan" -> {"plan-review", "execute"}
      [] p = "plan-review" -> {"plan", "execute"}
      [] p = "execute" -> {"code-review", "test", "commit"}
      [] p = "code-review" -> {"execute", "test", "commit"}
      [] p = "test" -> {"test-fix", "commit"}
      [] p = "test-fix" -> {"test"}
      [] p = "commit" -> {}

\* the position of a phase of the ledger in the order of the state machine
LedgerRank(p) ==
    CASE p = "intake" -> 1
      [] p = "setup" -> 2
      [] p \in {"plan", "plan-review"} -> 3
      [] p \in {"execute", "code-review"} -> 4
      [] p \in {"test", "test-fix"} -> 5
      [] p = "commit" -> 6

\* the position of a value of state in the order of the state machine
StateRank(s) ==
    CASE s = "intake" -> 1
      [] s = "setup" -> 2
      [] s = "plan" -> 3
      [] s = "plan-review" -> 4
      [] s = "execute" -> 5
      [] s = "code-review" -> 6
      [] s = "test" -> 7
      [] s = "commit" -> 8
      [] s = "done" -> 9

\* the ledger is in the order of the state machine
LedgerInOrder ==
    /\ Ledger # <<>> => Ledger[1] = "intake"
    /\ \A i \in 1..(Len(Ledger) - 1) : Ledger[i + 1] \in Successors(Ledger[i])
    /\ \A i, j \in 1..Len(Ledger) :
         i < j => LedgerRank(Ledger[i]) <= LedgerRank(Ledger[j])

\* C30: the ledger of orchestrate starts with intake, setup, plan, goes on
\* with plan-review and plan entries in alternation, then execute, then
\* code-review and execute entries in alternation, then test, then test-fix
\* and test entries in alternation, and ends with at most one commit; no
\* entry of an earlier phase follows an entry of a later one; and every step
\* leaves state where it is or moves it forward in that order.
C30_LedgerAndStateInOrder ==
    /\ [](program = "v1" => LedgerInOrder)
    /\ [][StateRank(state') >= StateRank(state)]_vars

\* C30: a run with a plan revision and a test-fix has returned with the
\* ledger intake, setup, plan, plan-review, plan, plan-review, execute,
\* code-review, test, test-fix, test, commit
C30_LedgerOfFullRun ==
    /\ Returned /\ state = "done"
    /\ Ledger = <<"intake", "setup", "plan", "plan-review", "plan",
                  "plan-review", "execute", "code-review", "test", "test-fix",
                  "test", "commit">>

\* the session id reported by the last call before the j-th whose step is
\* one of ops and which reported one; 0 if there is none
LastReported(ops, j) ==
    LET R == {i \in CallsOf(ops) : i < j /\ calls[i].sessionId # 0} IN
      IF R = {} THEN 0 ELSE calls[Last(R)].sessionId

C32_LedgerAppendOnlyCostMonotone ==
    /\ [](\A i \in 1..Len(phases) : phases[i].costUsd >= 0)
    /\ [][/\ Len(phases') \in {Len(phases), Len(phases) + 1}
          /\ SubSeq(phases', 1, Len(phases)) = phases
          /\ totalCost(phases') >= totalCost(phases)]_vars

\* C32: a run has returned with a ledger whose total grew in more than one
\* step, phases without cost lying between the costly ones
C32_ReturnedWithGrownTotal ==
    /\ Returned /\ program = "v1"
    /\ totalCost(phases) > MaxCost
    /\ \E i, j \in 1..Len(phases) :
         i + 1 < j /\ phases[i].costUsd > 0 /\ phases[j].costUsd > 0
         /\ phases[i + 1].costUsd = 0

\* the calls that are passed the TestBaseline
BaselineUsers == CallsOf({"test", "retest", "test-fix"})

\* C33: the baseline changes only in the baseline step, which runs before any
\* plan invocation and runs each check command at most once; every test call,
\* every re-test and every test-fix is passed the baseline of the run as it
\* stands, so all of them are passed the same value.
C33_BaselineComputedOnceThenFixed ==
    /\ [](/\ \A i \in BaselineUsers : calls[i].baseline = baseline
          /\ \A i, j \in 1..Len(executed) :
               (/\ executed[i].at = "baseline" /\ executed[j].at = "baseline"
                /\ executed[i].category = executed[j].category) => i = j)
    /\ [][baseline' # baseline
          => /\ pc = "baseline"
             /\ CallsOf(PlanOps \cup AfterPlanOps) = {}
             /\ \A i \in 1..Len(executed) : executed[i].at # "baseline"]_vars

\* C33: a run whose baseline enforces the unit tests and not the lint has made
\* a test call, a test-fix and a re-test
C33_RetestWithBaseline ==
    /\ baseline.runUnit /\ ~baseline.runLint /\ projectInfo.lintCommand
    /\ \E i, j, k \in BaselineUsers :
         /\ i < j /\ j < k
         /\ calls[i].op = "test" /\ calls[j].op = "test-fix"
         /\ calls[k].op = "retest"

\* ---- C34 ----
\* C34: given a budget maxBudgetUsd = B, runAgent aborts the call in flight
\* exactly when the accumulated cost of the run, the current call's reported
\* cost counted once, is strictly greater than B; it never aborts while that
\* cost is at most B; an aborted call returns normally with the cost it has
\* incurred.  The accumulated cost with the call's cost counted once is
\* totalAccumulatedCost after the message has been read.
C34_AbortsExactlyOverBudget ==
    /\ [][(NextMessage /\ maxBudgetUsd > 0) =>
            (aborted' <=> totalAccumulatedCost' > maxBudgetUsd)]_vars
    /\ [](\A i \in 1..Len(calls) :
            (calls[i].op = "runAgent" /\ calls[i].aborted) =>
               /\ calls[i].out = "ok"
               /\ calls[i].cost = calls[i].total - calls[i].pre)

\* a call is aborted by a budget that its accumulated cost does not exceed
C34_AbortedWithinBudget ==
    /\ program = "runAgent"
    /\ aborted
    /\ maxBudgetUsd > 0
    /\ totalAccumulatedCost <= maxBudgetUsd

\* ---- C35 ----
BudgetFailures ==
    {"Budget exceeded during plan review", "Budget exceeded before execution"}

\* C35: orchestrate raises the budget-exceeded condition only when the
\* cumulative cost is strictly greater than maxTotalBudgetUsd, as checkBudget
\* of runController does: a run is failed for its budget only with a ledger
\* total above the cap, so a run whose total equals the cap goes on to execute.
C35_BudgetFailureOnlyAboveCap ==
    (program = "v1" /\ fail.summary \in BudgetFailures) =>
        totalCost(phases) > config.maxTotalBudgetUsd

\* C35: a run of orchestrate whose plan cost exactly the cap has returned
\* failed with 'Budget exceeded before execution', execute never called
C35_FailedAtExactlyTheCap ==
    /\ program = "v1" /\ Returned
    /\ fail.summary = "Budget exceeded before execution"
    /\ config.maxTotalBudgetUsd > 0
    /\ totalCost(phases) = config.maxTotalBudgetUsd
    /\ CallsOf({"execute"}) = {}
    /\ result.status = "failed"

\* ---- C36 ----
GuardedOps == {"plan-revise", "execute", "code-review", "test-fix"}

\* C36: in orchestrate no plan revision, execute, code review or test fix is
\* started while the ledger total is already at or above maxTotalBudgetUsd.
C36_GuardedCallsStartBelowCap ==
    program = "v1" =>
        \A i \in CallsOf(GuardedOps) : calls[i].pre < config.maxTotalBudgetUsd

\* C36: a returned run in which all four kinds of call were made, the test
\* fix one unit below the cap
C36_AllFourStartedBelowCap ==
    /\ program = "v1" /\ Returned
    /\ \A op \in GuardedOps : CallsOf({op}) # {}
    /\ \E i \in CallsOf({"test-fix"}) :
         calls[i].pre + 1 = config.maxTotalBudgetUsd

\* ---- C37 ----
\* the positions of the ledger entries of the given phases
Entries(names) == {i \in 1..Len(phases) : phases[i].phase \in names}

\* C37: in orchestrate with tests not skipped, when the commit phase is
\* entered the ledger holds exactly one more test entry than test-fix entries,
\* every test-fix entry is directly followed by a test entry, and the last
\* test-related entry is a test entry whose success flag is
\* lastTestResult.passed.
C37_TestsFrameEveryFix ==
    (program = "v1" /\ pc = "commit" /\ ~config.skipTests) =>
        /\ Cardinality(Entries({"test"})) = Cardinality(Entries({"test-fix"})) + 1
        /\ \A i \in Entries({"test-fix"}) :
             i < Len(phases) /\ phases[i + 1].phase = "test"
        /\ LET last == Last(Entries({"test", "test-fix"})) IN
             /\ phases[last].phase = "test"
             /\ phases[last].success = lastTestResult.passed

\* C37: commit is entered after two test fixes, the checks still failing
C37_CommitAfterTwoFixes ==
    /\ program = "v1" /\ pc = "commit" /\ ~config.skipTests
    /\ Cardinality(Entries({"test-fix"})) = 2
    /\ Cardinality(Entries({"test"})) = 3
    /\ ~lastTestResult.passed

\* ---- C38 ----
\* C38: in runController a git push, and a PR creation, is attempted only if
\* the ProjectInfo detected by setup has canPush = true and config.noPush is
\* false, on the success path and on the salvage path alike.
C38_PushOnlyIfCanPush ==
    (program = "v2" /\ (git.pushAttempted \/ git.prAttempted)) =>
        (projectInfo.canPush /\ ~config.noPush)

\* C38: a run whose setup found that the repository cannot be pushed to has
\* failed later with a changed worktree, and the salvage has attempted a push
C38_SalvagePushWithoutCanPush ==
    /\ program = "v2" /\ Returned
    /\ result.status = "partial"
    /\ ~projectInfo.canPush
    /\ ~config.noPush
    /\ git.pushAttempted
    /\ CallsOf({"runCommit"}) = {}

\* ---- C39 ----
\* a marker line whose verdict word, the first after 'VERDICT:', is APPROVE
ApproveMarker(l) ==
    LET line == Trim(l) IN
      /\ StartsWith(line, "VERDICT:")
      /\ StartsWith(TrimStart(Tail(line)), "APPROVE")

\* C39: parseVerdict returns only approve or revise, and approve if and only
\* if the text has no marker line or its last marker line is an approve
\* marker; a last marker line with another verdict word that merely mentions
\* APPROVE yields revise.
C39_ApproveIffNoMarkerOrApproveMarker ==
    Parsed =>
        /\ parsed.verdict \in {"approve", "revise"}
        /\ parsed.verdict = "approve" <=>
             \/ MarkerLines(text) = {}
             \/ ApproveMarker(Split(text)[Last(MarkerLines(text))])

\* C39: a text whose last marker line is 'VERDICT: REVISE APPROVE', numbered
\* issues after it, has been parsed as approve and the review loop left
C39_ReviseMentioningApproveApproved ==
    /\ pc = "approved"
    /\ MarkerLines(text) # {}
    /\ LET last == Last(MarkerLines(text)) IN
         /\ Split(text)[last] = <<"VERDICT:", " ", "REVISE", " ", "APPROVE">>
         /\ last < Len(Split(text))
         /\ IsNumbered(Split(text)[last + 1])
    /\ parsed = [verdict |-> "approve", issues |-> <<>>]

\* ---- C40 ----
\* a review loop with cycle cap n has so far made at most n reviews and at
\* most n - 1 revisions, none of either if it is skipped, and no revision
\* after its n-th review
LoopWithinCap(review, revision, n, skipped) ==
    /\ Cardinality(CallsOf({review})) <= n
    /\ Cardinality(CallsOf({revision})) <= (IF n = 0 THEN 0 ELSE n - 1)
    /\ skipped => CallsOf({review, revision}) = {}
    /\ \A i \in CallsOf({revision}) :
         Cardinality({j \in CallsOf({review}) : j < i}) < n

\* C40: with a cycle cap of N each review loop (plan review and code review
\* of orchestrate, the plan and implementation simulator loops of
\* runController) makes at most N reviews and at most N - 1 revision or fix
\* calls, none of either when N = 0 or the review is skipped, and no revision
\* or fix after the N-th review.
C40_ReviewLoopsWithinCap ==
    /\ LoopWithinCap("plan-review", "plan-revise",
                     config.maxPlanReviewCycles, config.skipPlanReview)
    /\ LoopWithinCap("code-review", "execute-fix",
                     config.maxCodeReviewCycles, config.skipCodeReview)
    /\ LoopWithinCap("plan-simulator", "plan-revision",
                     config.maxPlanReviewCycles, config.skipReview)
    /\ LoopWithinCap("implement-simulator", "implement-fix",
                     config.maxCodeReviewCycles, config.skipReview)

\* C40: a run of orchestrate with a plan-review cap of two has made two
\* reviews, both asking for a revision, and one revision, and has gone on to
\* execute
C40_SecondReviseFallsThrough ==
    /\ program = "v1"
    /\ config.maxPlanReviewCycles = 2
    /\ Cardinality(CallsOf({"plan-review"})) = 2
    /\ \A i \in CallsOf({"plan-review"}) : calls[i].out = "revise"
    /\ Cardinality(CallsOf({"plan-revise"})) = 1
    /\ CallsOf({"execute"}) # {}

====
